---- MODULE Spec2Model ----
(***************************************************************************)
(* Model of miso-lims: the domain core (crates/miso-domain: entities,      *)
(* value objects and services), the repositories of miso-infrastructure,   *)
(* the services of miso-application and the mutating routes of miso-api.   *)
(* Characters are modelled by their Unicode code point, u8 arithmetic      *)
(* keeps its width, time is a non-decreasing integer clock.                *)
(*                                                                         *)
(* The specifications share the variables:                                 *)
(*   SpecBox      one StorageBox driven by place_item/remove_item/move_item*)
(*   SpecPool     one Pool driven by add_element/remove_element/           *)
(*                mark_sequenced                                           *)
(*   SpecDim      Dimension::index_to_position applied to bounded inputs   *)
(*   SpecHamming  DnaIndex::hamming_distance applied to pairs of indices   *)
(*   SpecCollide  IndexCollisionChecker applied to lists of libraries      *)
(*   SpecValidate Pool::validate_indices applied to a pool and a slice     *)
(*   SpecBarcode  BarcodeValidator::validate_with_rules applied to strings *)
(*   SpecSample   one Sample driven by set_volume and withdraw_volume      *)
(*   SpecEligibility  one Sample and one Library driven by set_qc_status,  *)
(*                archive and set_index                                    *)
(*   SpecProject  one Project driven by activate/hold/complete/cancel and  *)
(*                add_sample                                               *)
(*   SpecTotal    the constructors Dimension::new, Volume::new,            *)
(*                Concentration::new, BoxPosition::new and parse, and      *)
(*                Sample::withdraw_volume, applied to bounded inputs       *)
(*   SpecAppend   a list of indices grown through can_add_index           *)
(*   SpecStore    the repositories and SampleService::create_plain_sample  *)
(*                over one database                                        *)
(*   SpecCreate   concurrent ProjectService::create_project calls, each   *)
(*                interleaved at its two awaits                            *)
(*   SpecRoutes   the mutating API routes called by one authenticated user *)
(*   SpecClock    one entity (StorageBox, Pool, Sample, Library or         *)
(*                Project) driven by its mutating methods while time passes*)
(***************************************************************************)
EXTENDS Integers, Sequences, FiniteSets, TLC

VARIABLES
    box,              \* the StorageBox under SpecBox
    pool,             \* the Pool under SpecPool
    conv,             \* the (dimension, index) pair under SpecDim
    now,              \* the value the next Utc::now() returns
    op,               \* name of the last operation called
    result,           \* what the last operation returned
    overflow_checks,  \* build profile: TRUE = integer overflow panics (debug)
    pair,             \* the two DnaIndex operands under SpecHamming
    checker,          \* the IndexCollisionChecker under SpecCollide
    libraries,        \* the slice of libraries under SpecCollide, SpecValidate;
                      \* the (name, index) list under SpecAppend
    validator,        \* the rules and the candidate string under SpecBarcode
    sample,           \* the Sample under SpecSample, SpecEligibility
    library,          \* the Library under SpecEligibility
    project,          \* the Project under SpecProject
    live,             \* the entity a behaviour of SpecClock drives
    db,               \* the tables behind the repositories
    calls,            \* the service calls in flight, each at its await point
    user              \* the authenticated caller of the API routes

vars == <<box, pool, conv, now, op, result, overflow_checks,
          pair, checker, libraries, validator, sample,
          library, project, live, db, calls, user>>

\* the variables added for the services and the Sample
services == <<pair, checker, libraries, validator, sample>>

\* the variables added for the entity life cycles
lifecycle == <<library, project, live>>

\* the variables added for the application services and the API
application == <<db, calls, user>>

----------------------------------------------------------------------------
(* Bounds of the model *)

MaxRows == 2       \* boxes have 1..MaxRows rows
MaxCols == 2       \* boxes have MaxCols columns
MaxItems == 2      \* place_item is not called on a box holding MaxItems items
MaxItemId == 2     \* item ids are 1..MaxItemId
MaxClock == 1      \* the clock runs over 0..MaxClock
MaxLibraryId == 3  \* library ids are 1..MaxLibraryId
MaxAliquotId == 2  \* library aliquot ids are 1..MaxAliquotId
ExtraIndex == 2    \* index_to_position is tried up to capacity + ExtraIndex
MaxSeqLen == 2     \* generated index sequences have 1..MaxSeqLen bases
MaxSlice == 3      \* the checker is given at most MaxSlice libraries
MaxBarcodeLen == 4  \* generated barcode candidates have 0..MaxBarcodeLen characters
MaxVolume == 4     \* finite volumes are 0..MaxVolume microliters

(* Program constants *)

MaxRowLetters == 26   \* Dimension::new: rows <= 26
MaxU8 == 255          \* cols is a u8
U8Modulus == 256      \* width of u8 arithmetic
CharUpperA == 65      \* b'A'
CharLowerA == 97      \* 'a'
CharLowerZ == 122     \* 'z'

\* Option<T>: None is the empty set, Some(v) the singleton {v}
None == {}
Some(v) == {v}
the(o) == CHOOSE v \in o : TRUE

\* A returned value: the variant's name and what it carries
Value(tag, carried) == [tag |-> tag, carried |-> carried]

----------------------------------------------------------------------------
(* value_objects/position.rs *)

\* char::to_ascii_uppercase
to_ascii_uppercase(c) ==
    IF c >= CharLowerA /\ c <= CharLowerZ THEN c - (CharLowerA - CharUpperA) ELSE c

\* `row as u8`: a char cast to u8 keeps the low byte
as_u8(c) == c % U8Modulus

\* `row as u8 - b'A'` overflows when the low byte is below b'A'
row_sub_overflows(row) == as_u8(row) < CharUpperA

\* `row as u8 - b'A'` in a build without overflow checks (wrapping)
row_sub_wrapping(row) == (as_u8(row) - CharUpperA) % U8Modulus

Dimension(rows, cols) == [rows |-> rows, cols |-> cols]

capacity(d) == d.rows * d.cols

\* Dimension::is_valid_position, for a row on which the subtraction
\* does not panic
is_valid_position(d, row, col) ==
    LET row_upper == to_ascii_uppercase(row)
        row_num == row_sub_wrapping(row_upper)
    IN  row_num < d.rows /\ col >= 1 /\ col <= d.cols

\* whether Dimension::is_valid_position panics in this build
is_valid_position_panics(row) ==
    overflow_checks /\ row_sub_overflows(to_ascii_uppercase(row))

new_unchecked(row, col) == [row |-> to_ascii_uppercase(row), col |-> col]

index_to_position_by_rows(d, index) ==
    IF index >= capacity(d)
    THEN None
    ELSE LET row == (index \div d.rows) % U8Modulus
             col == ((index % d.rows) % U8Modulus) + 1
             row_char == (CharUpperA + row) % U8Modulus
         IN  Some(new_unchecked(row_char, col))

index_to_position(d, index) ==
    IF index >= capacity(d)
    THEN None
    ELSE LET row == (index \div d.cols) % U8Modulus
             col == ((index % d.cols) % U8Modulus) + 1
             row_char == (CharUpperA + row) % U8Modulus
         IN  Some(new_unchecked(row_char, col))

row_index(p) == row_sub_wrapping(p.row)

to_index(p, d) == row_index(p) * d.cols + (p.col - 1)

----------------------------------------------------------------------------
(* entities/box_entity.rs *)

StorableTypes == {"Sample", "Library"}

StorableItem(item_type, item_id) == [item_type |-> item_type, item_id |-> item_id]

Items == {StorableItem(t, i) : t \in StorableTypes, i \in 1..MaxItemId}

\* Row characters handed to BoxPosition::new_unchecked besides the letters
\* of the largest box: a lower-case letter, a character below 'A' and a
\* non-ASCII character
CharDigit1 == CharUpperA - 16          \* '1', below 'A'
CharLStroke == U8Modulus + CharUpperA  \* U+0141, whose low byte is b'A'
RowChars == {CharLowerA, CharDigit1, CharLStroke}

\* The BoxPosition values the operations are called with
Positions ==
    {new_unchecked(CharUpperA + r, c) : r \in 0..(MaxRows - 1), c \in 1..MaxCols}
    \cup {new_unchecked(r, 1) : r \in RowChars}
    \cup {new_unchecked(CharUpperA, 0), new_unchecked(CharUpperA, MaxCols + 1)}

\* The boxes have up to MaxRows rows of MaxCols columns
Dimensions == {Dimension(r, MaxCols) : r \in 1..MaxRows}

\* HashMap<BoxPosition, StorableItem> as a set of (key, value) entries
contains_key(m, k) == \E e \in m : e[1] = k
get(m, k) == {e[2] : e \in {f \in m : f[1] = k}}
insert(m, k, v) == {e \in m : e[1] # k} \cup {<<k, v>>}
remove(m, k) == {e \in m : e[1] # k}

StorageBox_new(dimension, storable_type, t) ==
    [dimension |-> dimension, storable_type |-> storable_type,
     contents |-> {}, created_at |-> t, updated_at |-> t]

item_count(b) == Cardinality(b.contents)

is_full(b) == item_count(b) >= capacity(b.dimension)

is_occupied(b, position) == contains_key(b.contents, position)

get_item(b, position) == get(b.contents, position)

Return(tag, b) == [result |-> Value(tag, None), box |-> b]

place_item_no_type_check(b, position, item, t) ==
    IF is_valid_position_panics(position.row)
    THEN Return("Panic", b)
    ELSE IF ~is_valid_position(b.dimension, position.row, position.col)
    THEN Return("InvalidPosition", b)
    ELSE IF is_occupied(b, position)
    THEN Return("PositionOccupied", b)
    ELSE Return("Ok", [b EXCEPT !.contents = insert(b.contents, position, item),
                                !.updated_at = t])

place_item_no_occupied_check(b, position, item, t) ==
    IF item.item_type # b.storable_type
    THEN Return("IncompatibleStorageTypes", b)
    ELSE IF is_valid_position_panics(position.row)
    THEN Return("Panic", b)
    ELSE IF ~is_valid_position(b.dimension, position.row, position.col)
    THEN Return("InvalidPosition", b)
    ELSE Return("Ok", [b EXCEPT !.contents = insert(b.contents, position, item),
                                !.updated_at = t])

\* StorageBox::place_item: the returned value and the box afterwards
place_item(b, position, item, t) ==
    IF item.item_type # b.storable_type
    THEN Return("IncompatibleStorageTypes", b)
    ELSE IF is_valid_position_panics(position.row)
    THEN Return("Panic", b)
    ELSE IF ~is_valid_position(b.dimension, position.row, position.col)
    THEN Return("InvalidPosition", b)
    ELSE IF is_occupied(b, position)
    THEN Return("PositionOccupied", b)
    ELSE Return("Ok", [b EXCEPT !.contents = insert(b.contents, position, item),
                                !.updated_at = t])

\* StorageBox::remove_item
remove_item_always_touches(b, position, t) ==
    LET item == get(b.contents, position)
    IN  [result |-> Value(IF item # None THEN "Some" ELSE "None", item),
         box |-> [b EXCEPT !.contents = remove(b.contents, position),
                           !.updated_at = t]]

\* StorageBox::remove_item
remove_item(b, position, t) ==
    LET item == get(b.contents, position)
    IN  IF item # None
        THEN [result |-> Value("Some", item),
              box |-> [b EXCEPT !.contents = remove(b.contents, position),
                                !.updated_at = t]]
        ELSE [result |-> Value("None", None), box |-> b]

move_item_keeps_source(b, from, to, t) ==
    IF is_occupied(b, to)
    THEN Return("PositionOccupied", b)
    ELSE LET item == get(b.contents, from)
         IN  IF item = None
             THEN Return("ItemNotInBox", b)
             ELSE Return("Ok", [b EXCEPT !.contents = insert(b.contents, to, the(item)),
                                         !.updated_at = t])

\* StorageBox::move_item
move_item(b, from, to, t) ==
    IF is_occupied(b, to)
    THEN Return("PositionOccupied", b)
    ELSE LET item == get(b.contents, from)
         IN  IF item = None
             THEN Return("ItemNotInBox", b)
             ELSE Return("Ok", [b EXCEPT
                         !.contents = insert(remove(b.contents, from), to, the(item)),
                         !.updated_at = t])

RECURSIVE find_empty_from(_, _)
find_empty_from(b, idx) ==
    IF idx >= capacity(b.dimension)
    THEN None
    ELSE LET pos == index_to_position(b.dimension, idx)
         IN  IF pos # None /\ ~is_occupied(b, the(pos))
             THEN pos
             ELSE find_empty_from(b, idx + 1)

\* StorageBox::find_empty_position
find_empty_position(b) == find_empty_from(b, 0)

----------------------------------------------------------------------------
(* entities/pool.rs *)

PoolElement(library_aliquot_id, library_id) ==
    [library_aliquot_id |-> library_aliquot_id, library_id |-> library_id]

PoolElements ==
    {PoolElement(a, l) : a \in 1..MaxAliquotId, l \in 1..MaxLibraryId}

Pool_new(t) ==
    [elements |-> <<>>, sequenced |-> FALSE, created_at |-> t, updated_at |-> t]

PoolReturn(tag, p) == [result |-> Value(tag, None), pool |-> p]

add_element_by_aliquot(p, element, t) ==
    IF \E i \in DOMAIN p.elements :
           p.elements[i].library_aliquot_id = element.library_aliquot_id
    THEN PoolReturn("DuplicateLibrary", p)
    ELSE PoolReturn("Ok", [p EXCEPT !.elements = Append(p.elements, element),
                                    !.updated_at = t])

add_element_push_first(p, element, t) ==
    IF \E i \in DOMAIN p.elements : p.elements[i].library_id = element.library_id
    THEN PoolReturn("DuplicateLibrary",
                    [p EXCEPT !.elements = Append(p.elements, element)])
    ELSE PoolReturn("Ok", [p EXCEPT !.elements = Append(p.elements, element),
                                    !.updated_at = t])

\* Pool::add_element
add_element(p, element, t) ==
    IF \E i \in DOMAIN p.elements : p.elements[i].library_id = element.library_id
    THEN PoolReturn("DuplicateLibrary", p)
    ELSE PoolReturn("Ok", [p EXCEPT !.elements = Append(p.elements, element),
                                    !.updated_at = t])

\* Vec::retain(|e| e.library_aliquot_id != library_aliquot_id)
retain_other_aliquots(elements, library_aliquot_id) ==
    LET keep(e) == e.library_aliquot_id # library_aliquot_id
    IN  SelectSeq(elements, keep)

remove_element_unguarded(p, library_aliquot_id, t) ==
    LET retained == retain_other_aliquots(p.elements, library_aliquot_id)
    IN  IF Len(retained) = Len(p.elements)
        THEN PoolReturn("DuplicateLibrary", p)
        ELSE PoolReturn("Ok", [p EXCEPT !.elements = retained, !.updated_at = t])

remove_element_by_library(p, library_aliquot_id, t) ==
    IF p.sequenced
    THEN PoolReturn("AlreadySequenced", p)
    ELSE LET keep(e) == e.library_id # library_aliquot_id
             retained == SelectSeq(p.elements, keep)
         IN  IF Len(retained) = Len(p.elements)
             THEN PoolReturn("DuplicateLibrary", p)
             ELSE PoolReturn("Ok", [p EXCEPT !.elements = retained,
                                             !.updated_at = t])

\* Pool::remove_element
remove_element(p, library_aliquot_id, t) ==
    IF p.sequenced
    THEN PoolReturn("AlreadySequenced", p)
    ELSE LET retained == retain_other_aliquots(p.elements, library_aliquot_id)
         IN  IF Len(retained) = Len(p.elements)
             THEN PoolReturn("DuplicateLibrary", [p EXCEPT !.elements = retained])
             ELSE PoolReturn("Ok", [p EXCEPT !.elements = retained,
                                             !.updated_at = t])

\* Pool::mark_sequenced
mark_sequenced(p, t) ==
    PoolReturn("Unit", [p EXCEPT !.sequenced = TRUE, !.updated_at = t])

----------------------------------------------------------------------------
(* value_objects/dna_index.rs *)

\* A sequence is a string of bases, modelled as a tuple of characters
Bases == {"A", "C", "G", "T", "N"}
ATCACG == <<"A", "T", "C", "A", "C", "G">>
ATCACN == <<"A", "T", "C", "A", "C", "N">>
ATCACC == <<"A", "T", "C", "A", "C", "C">>
TTAGGC == <<"T", "T", "A", "G", "G", "C">>

\* the sequences of 1..n characters of S
SeqsUpTo(S, n) == UNION {[1..k -> S] : k \in 1..n}

\* DnaIndex::single and DnaIndex::dual on upper-case sequences of bases
\* (name and family play no part in the distance and are left out)
DnaIndex_single(i7) == [i7_sequence |-> i7, i5_sequence |-> None]
DnaIndex_dual(i7, i5) == [i7_sequence |-> i7, i5_sequence |-> Some(i5)]

is_dual(idx) == idx.i5_sequence # None

total_length(idx) ==
    Len(idx.i7_sequence) +
    (IF idx.i5_sequence # None THEN Len(the(idx.i5_sequence)) ELSE 0)

\* a.chars().zip(b.chars()).filter(|(ca, cb)| ca != cb).count()
RECURSIVE zip_filter_count(_, _)
zip_filter_count(a, b) ==
    IF a = <<>> \/ b = <<>>
    THEN 0
    ELSE (IF Head(a) # Head(b) THEN 1 ELSE 0) + zip_filter_count(Tail(a), Tail(b))

\* the 2-bit code of pack_sequence, under which N and T coincide
pack_base(c) == IF c = "C" THEN 1 ELSE IF c = "G" THEN 2
                ELSE IF c \in {"T", "N"} THEN 3 ELSE 0

RECURSIVE zip_packed_count(_, _)
zip_packed_count(a, b) ==
    IF a = <<>> \/ b = <<>>
    THEN 0
    ELSE (IF pack_base(Head(a)) # pack_base(Head(b)) THEN 1 ELSE 0)
         + zip_packed_count(Tail(a), Tail(b))

sequence_hamming_distance_packed(a, b) == zip_packed_count(a, b)

\* DnaIndex::sequence_hamming_distance (the count of a zip of two index
\* sequences is far below the width of the `as u32` cast)
sequence_hamming_distance(a, b) == zip_filter_count(a, b)

hamming_distance_i7_only(self, other) ==
    sequence_hamming_distance(self.i7_sequence, other.i7_sequence)

\* DnaIndex::hamming_distance
hamming_distance(self, other) ==
    LET i7_dist == sequence_hamming_distance(self.i7_sequence, other.i7_sequence)
        i5_dist == IF self.i5_sequence # None /\ other.i5_sequence # None
                   THEN sequence_hamming_distance(the(self.i5_sequence),
                                                  the(other.i5_sequence))
                   ELSE 0
    IN  i7_dist + i5_dist

\* The indices hamming_distance is applied to: every single and dual index
\* over two bases up to MaxSeqLen, and the indices of the unit tests
ShortBases == {"T", "N"}
ShortSeqs == SeqsUpTo(ShortBases, MaxSeqLen)
TestIndices == {DnaIndex_single(s) : s \in {ATCACG, ATCACN, ATCACC, TTAGGC}}
HammingIndices ==
    {DnaIndex_single(s) : s \in ShortSeqs}
    \cup {DnaIndex_dual(s, t) : s \in ShortSeqs, t \in ShortSeqs}
    \cup TestIndices

----------------------------------------------------------------------------
(* entities/library.rs, services/index_collision.rs *)

\* Library::new: a library has no index until set_index
\* (the name is derived from the id, as in the tests)
Library_new(id, t) ==
    [id |-> id, name |-> id, index |-> None, qc_status |-> "NotReady",
     low_quality |-> FALSE, archived |-> FALSE,
     created_at |-> t, updated_at |-> t]

\* Library::set_index
set_index(lib, index, t) ==
    [lib EXCEPT !.index = Some(index), !.updated_at = t]

\* Library::index_distance
index_distance(self, other) ==
    IF self.index # None /\ other.index # None
    THEN Some(hamming_distance(the(self.index), the(other.index)))
    ELSE None

CollisionCheckConfig(min_distance, check_dual_index) ==
    [min_distance |-> min_distance, check_dual_index |-> check_dual_index]

DefaultMinDistance == 3
RelaxedMinDistance == 2

Config_default == CollisionCheckConfig(DefaultMinDistance, TRUE)
Config_strict == CollisionCheckConfig(DefaultMinDistance, TRUE)
Config_relaxed == CollisionCheckConfig(RelaxedMinDistance, TRUE)
Config_single_index_only == CollisionCheckConfig(DefaultMinDistance, FALSE)

Configs == {Config_default, Config_strict, Config_relaxed, Config_single_index_only}

IndexCollision(library1, library2, index1, index2, distance, required_distance) ==
    [library1 |-> library1, library2 |-> library2,
     index1 |-> index1, index2 |-> index2,
     distance |-> distance, required_distance |-> required_distance]

\* an entry of the `indexed` / `indices` lists: a name and a DnaIndex
Entry(name, index) == [name |-> name, index |-> index]

\* libraries.iter().filter_map(|lib| lib.index.as_ref().map(|idx| (lib, idx)))
RECURSIVE indexed_of(_)
indexed_of(libs) ==
    IF libs = <<>>
    THEN <<>>
    ELSE (IF Head(libs).index # None
          THEN <<Entry(Head(libs).name, the(Head(libs).index))>>
          ELSE <<>>) \o indexed_of(Tail(libs))

\* the two nested loops of check_libraries and check_indices: the outer one
\* at position i, the inner one at position j, `first` being the inner
\* loop's start relative to i (skip(i + 1))
RECURSIVE check_pairs(_, _, _, _, _)
check_pairs(config, entries, i, j, first) ==
    IF i > Len(entries)
    THEN <<>>
    ELSE IF j > Len(entries)
    THEN check_pairs(config, entries, i + 1, i + 1 + first, first)
    ELSE LET distance == hamming_distance(entries[i].index, entries[j].index)
         IN  (IF distance < config.min_distance
              THEN <<IndexCollision(entries[i].name, entries[j].name,
                                    entries[i].index, entries[j].index,
                                    distance, config.min_distance)>>
              ELSE <<>>) \o check_pairs(config, entries, i, j + 1, first)

check_libraries_skip_i(config, libs) ==
    check_pairs(config, indexed_of(libs), 1, 1, 0)

\* IndexCollisionChecker::check_libraries
check_libraries(config, libs) ==
    check_pairs(config, indexed_of(libs), 1, 2, 1)

\* IndexCollisionChecker::check_indices
check_indices(config, indices) ==
    check_pairs(config, indices, 1, 2, 1)

RECURSIVE can_add_index_from(_, _, _, _, _)
can_add_index_from(config, existing, new_name, new_index, k) ==
    IF k > Len(existing)
    THEN Value("Ok", None)
    ELSE LET distance == hamming_distance(existing[k].index, new_index)
         IN  IF distance < config.min_distance
             THEN Value("Err", Some(IndexCollision(existing[k].name, new_name,
                                                   existing[k].index, new_index,
                                                   distance, config.min_distance)))
             ELSE can_add_index_from(config, existing, new_name, new_index, k + 1)

can_add_index_closest(config, existing, new_name, new_index) ==
    LET close == {k \in DOMAIN existing :
                     hamming_distance(existing[k].index, new_index)
                         < config.min_distance}
    IN  IF close = {}
        THEN Value("Ok", None)
        ELSE LET k == CHOOSE c \in close : \A d \in close :
                          hamming_distance(existing[c].index, new_index)
                              <= hamming_distance(existing[d].index, new_index)
             IN  Value("Err", Some(IndexCollision(
                     existing[k].name, new_name, existing[k].index, new_index,
                     hamming_distance(existing[k].index, new_index),
                     config.min_distance)))

can_add_index_last_only(config, existing, new_name, new_index) ==
    can_add_index_from(config, existing, new_name, new_index,
                       IF existing = <<>> THEN 1 ELSE Len(existing))

\* IndexCollisionChecker::can_add_index
can_add_index(config, existing, new_name, new_index) ==
    can_add_index_from(config, existing, new_name, new_index, 1)

\* the two nested loops of min_distance, the outer one at position i, the
\* inner one at position j; min is None while it still holds u32::MAX,
\* which is above every distance of two sequences
RECURSIVE min_distance_from(_, _, _, _)
min_distance_from(indices, i, j, min) ==
    IF i > Len(indices)
    THEN min
    ELSE IF j > Len(indices)
    THEN min_distance_from(indices, i + 1, i + 2, min)
    ELSE LET dist == hamming_distance(indices[i], indices[j])
         IN  min_distance_from(indices, i, j + 1,
                 IF min = None \/ dist < the(min) THEN Some(dist) ELSE min)

\* IndexCollisionChecker::min_distance
min_distance_of(indices) ==
    IF Len(indices) < 2 THEN None
    ELSE min_distance_from(indices, 1, 2, None)

\* The indices given to the checker: short single indices at distance 1 and
\* 2 of each other, the indices of the unit tests, and two dual indices
\* with the same i7 and i5 sequences five bases apart
CollideIndices ==
    {DnaIndex_single(<<"T", "T">>), DnaIndex_single(<<"T", "N">>),
     DnaIndex_single(<<"N", "N">>)}
    \cup TestIndices
    \cup {DnaIndex_dual(ATCACG, ATCACG), DnaIndex_dual(ATCACG, TTAGGC)}

NewName == "NEW"

----------------------------------------------------------------------------
(* entities/pool.rs: Pool::validate_indices *)

\* libraries.iter().map(|l| (l.id, l)).collect::<HashMap<_, _>>()
RECURSIVE collect_by_id(_)
collect_by_id(libs) ==
    IF libs = <<>>
    THEN {}
    ELSE LET last == libs[Len(libs)]
         IN  insert(collect_by_id(SubSeq(libs, 1, Len(libs) - 1)), last.id, last)

PoolError_IndexCollision(lib1, lib2, distance, required) ==
    [lib1 |-> lib1, lib2 |-> lib2, distance |-> distance, required |-> required]

\* the body of the two loops of validate_indices for the elements at i and j;
\* `inclusive` is the distance that still counts as a collision beyond
\* distance < min_distance (none in the code)
validate_pair(lib_map, elem1, elem2, min_distance, inclusive) ==
    LET found1 == get(lib_map, elem1.library_id)
        found2 == get(lib_map, elem2.library_id)
    IN  IF found1 # None /\ found2 # None
        THEN LET lib1 == the(found1)
                 lib2 == the(found2)
                 d == index_distance(lib1, lib2)
             IN  IF d # None /\ the(d) < min_distance + inclusive
                 THEN <<PoolError_IndexCollision(lib1.name, lib2.name,
                                                 the(d), min_distance)>>
                 ELSE <<>>
        ELSE <<>>

RECURSIVE validate_pairs(_, _, _, _, _, _)
validate_pairs(lib_map, elements, i, j, min_distance, inclusive) ==
    IF i > Len(elements)
    THEN <<>>
    ELSE IF j > Len(elements)
    THEN validate_pairs(lib_map, elements, i + 1, i + 2, min_distance, inclusive)
    ELSE validate_pair(lib_map, elements[i], elements[j], min_distance, inclusive)
         \o validate_pairs(lib_map, elements, i, j + 1, min_distance, inclusive)

validate_indices_inclusive(p, libs, min_distance) ==
    [result |-> Value("Vec", validate_pairs(collect_by_id(libs), p.elements,
                                            1, 2, min_distance, 1)),
     pool |-> p]

\* Pool::validate_indices
validate_indices(p, libs, min_distance) ==
    [result |-> Value("Vec", validate_pairs(collect_by_id(libs), p.elements,
                                            1, 2, min_distance, 0)),
     pool |-> p]

\* The indices of the libraries given to validate_indices: at distance 1
\* and 2 of each other
ValidateIndices_inputs ==
    {DnaIndex_single(<<"T", "T">>), DnaIndex_single(<<"T", "N">>),
     DnaIndex_single(<<"N", "N">>)}

\* the thresholds validate_indices is called with
MinDistances == RelaxedMinDistance..DefaultMinDistance

----------------------------------------------------------------------------
(* value_objects/barcode.rs, services/barcode_validation.rs *)
(* A string is the sequence of its characters' code points.              *)

CharSpace == CharUpperA - 33   \* ' '
CharBang == CharUpperA - 32    \* '!'
CharHyphen == CharUpperA - 20  \* '-'
CharUnderscore == CharLowerA - 2  \* '_'
CharEAcute == MaxU8 - 22       \* U+00E9, two bytes in UTF-8

\* the characters of "SAM", "LIB" and of the digits 1..5
CharB == CharUpperA + 1
CharI == CharUpperA + 8
CharL == CharUpperA + 11
CharM == CharUpperA + 12
CharS == CharUpperA + 18
Digit(n) == CharDigit1 + (n - 1)

\* char::len_utf8
len_utf8(c) ==
    IF c < 128 THEN 1 ELSE IF c < 2048 THEN 2 ELSE IF c < 65536 THEN 3 ELSE 4

\* str::len: the length in bytes of the UTF-8 encoding
RECURSIVE str_len(_)
str_len(s) == IF s = <<>> THEN 0 ELSE len_utf8(Head(s)) + str_len(Tail(s))

\* char::is_whitespace, for the code points below U+0100
is_whitespace(c) == c \in (9..13) \cup {CharSpace, 133, 160}

\* char::is_alphanumeric, for the ASCII characters and the letters of the
\* Latin-1 block from U+00C0
is_alphanumeric(c) ==
    \/ c \in CharDigit1 - 1 .. CharDigit1 + 8
    \/ c \in CharUpperA .. CharUpperA + 25
    \/ c \in CharLowerA .. CharLowerZ
    \/ c \in (192..MaxU8) \ {215, 247}

\* str::trim
RECURSIVE trim_start(_)
trim_start(s) ==
    IF s # <<>> /\ is_whitespace(Head(s)) THEN trim_start(Tail(s)) ELSE s

RECURSIVE trim_end(_)
trim_end(s) ==
    IF s # <<>> /\ is_whitespace(s[Len(s)])
    THEN trim_end(SubSeq(s, 1, Len(s) - 1))
    ELSE s

trim(s) == trim_end(trim_start(s))

\* str::starts_with
starts_with(s, prefix) ==
    Len(prefix) <= Len(s) /\ SubSeq(s, 1, Len(prefix)) = prefix

\* Barcode::new
Barcode_new(value) ==
    IF value = <<>>
    THEN Value("Empty", None)
    ELSE IF ~(\A i \in DOMAIN value :
                 is_alphanumeric(value[i])
                 \/ value[i] = CharHyphen \/ value[i] = CharUnderscore)
    THEN Value("InvalidCharacters", Some(value))
    ELSE Value("Ok", Some(value))

BarcodeValidationRules(prefix, min_length, max_length) ==
    [prefix |-> prefix, min_length |-> min_length, max_length |-> max_length]

SampleMinLength == 6
SampleMaxLength == 20
DefaultMinLength == 3
DefaultMaxLength == 50

Rules_default ==
    BarcodeValidationRules(None, Some(DefaultMinLength), Some(DefaultMaxLength))

\* BarcodeValidationRules::for_samples
for_samples ==
    BarcodeValidationRules(Some(<<CharS, CharUpperA, CharM>>),
                           Some(SampleMinLength), Some(SampleMaxLength))

\* BarcodeValidator::validate_with_rules
validate_with_rules(barcode, rules) ==
    LET barcode_str == trim(barcode)
    IN  IF barcode_str = <<>>
        THEN Value("Empty", None)
        ELSE IF rules.min_length # None /\ str_len(barcode_str) < the(rules.min_length)
        THEN Value("InvalidFormat", rules.min_length)
        ELSE IF rules.max_length # None /\ str_len(barcode_str) > the(rules.max_length)
        THEN Value("InvalidFormat", rules.max_length)
        ELSE IF rules.prefix # None /\ ~starts_with(barcode_str, the(rules.prefix))
        THEN Value("PatternMismatch", Some(barcode_str))
        ELSE Barcode_new(barcode_str)

\* BarcodeValidator::validate_sample
validate_sample(barcode) == validate_with_rules(barcode, for_samples)

\* Candidate strings: those of the unit tests, variations of them, and
\* every string of up to MaxBarcodeLen characters of a small alphabet
SAM == <<CharS, CharUpperA, CharM, CharHyphen>>
LIB == <<CharL, CharI, CharB, CharHyphen>>
Digits12345 == <<Digit(1), Digit(2), Digit(3), Digit(4), Digit(5)>>

TestBarcodes ==
    {SAM \o Digits12345,
     LIB \o Digits12345,
     SAM \o <<Digit(1)>>,
     LIB \o <<Digit(1)>>,
     SAM \o <<CharEAcute>>,
     SAM \o <<CharBang>>,
     SAM \o <<Digit(1), Digit(2), CharBang>>,
     <<CharSpace>> \o SAM \o Digits12345 \o <<CharSpace>>,
     SAM \o Digits12345 \o Digits12345 \o Digits12345 \o <<Digit(1)>>,
     SAM \o Digits12345 \o Digits12345 \o Digits12345 \o <<Digit(1), Digit(2)>>}

BarcodeAlphabet == {CharS, CharHyphen, CharEAcute, CharBang, CharSpace}

ShortBarcodes == {<<>>} \cup SeqsUpTo(BarcodeAlphabet, MaxBarcodeLen)

\* custom rules at the scale of the short candidates
ShortRules ==
    {BarcodeValidationRules(Some(<<CharS>>), Some(2), Some(3)),
     BarcodeValidationRules(None, None, Some(3))}

----------------------------------------------------------------------------
(* value_objects/volume.rs, entities/sample.rs *)
(* An f64 is a whole number of microliters (exact in f64 at this scale), *)
(* an infinity or NaN.                                                   *)

F64(n) == [kind |-> "finite", n |-> n]
F64Inf == [kind |-> "inf", n |-> 0]
F64NegInf == [kind |-> "neginf", n |-> 0]
F64NaN == [kind |-> "nan", n |-> 0]

\* IEEE 754 subtraction a - b
f64_sub(a, b) ==
    IF a.kind = "nan" \/ b.kind = "nan" THEN F64NaN
    ELSE IF a.kind = "finite" /\ b.kind = "finite" THEN F64(a.n - b.n)
    ELSE IF a.kind = b.kind THEN F64NaN
    ELSE IF a.kind = "inf" \/ b.kind = "neginf" THEN F64Inf
    ELSE F64NegInf

\* x < 0.0
f64_lt_zero(x) == x.kind = "neginf" \/ (x.kind = "finite" /\ x.n < 0)

\* the values Volume::new accepts: value >= 0.0 && !value.is_nan()
AcceptedValues == {F64(n) : n \in 0..MaxVolume} \cup {F64Inf}

\* Volume::microliters
Volume_microliters(value) == [value_ul |-> value, display_unit |-> "Microliters"]

\* Volume::subtract
subtract(self, amount) ==
    LET remaining == f64_sub(self.value_ul, amount.value_ul)
    IN  IF f64_lt_zero(remaining)
        THEN None
        ELSE Some([value_ul |-> remaining, display_unit |-> self.display_unit])

\* Sample::new_plain: no tracked volume
Sample_new_plain(t) ==
    [sample_class |-> "Plain", volume |-> None, qc_status |-> "NotReady",
     archived |-> FALSE, created_at |-> t, updated_at |-> t]

SampleReturn(tag, s) == [result |-> Value(tag, None), sample |-> s]

\* Sample::archive
archive(s, t) ==
    SampleReturn("Unit", [s EXCEPT !.archived = TRUE, !.updated_at = t])

\* Sample::withdraw_volume
withdraw_volume(s, amount, t) ==
    IF s.volume # None
    THEN LET remaining == subtract(the(s.volume), amount)
         IN  IF remaining # None
             THEN SampleReturn("Ok", [s EXCEPT !.volume = remaining,
                                               !.updated_at = t])
             ELSE SampleReturn("Insufficient volume", s)
    ELSE SampleReturn("Sample has no tracked volume", s)

----------------------------------------------------------------------------
(* value_objects/qc_status.rs, entities/sample.rs, entities/library.rs:  *)
(* the eligibility predicates                                            *)

QcStatuses == {"NotReady", "Ready", "Passed", "Failed", "NeedsReview"}

\* QcStatus::allows_progression
allows_progression(status) == status = "Passed"

SampleClasses ==
    {"Plain", "Identity", "Tissue", "TissueProcessing", "Stock", "Aliquot",
     "SingleCell", "WholeTranscriptome"}

\* SampleClass::can_create_library
SampleClass_can_create_library(class) ==
    class \in {"Plain", "Aliquot", "WholeTranscriptome"}

\* a Sample built by struct literal with SampleDetails of the given class
\* (SampleDetails::Plain for "Plain", SampleDetails::Detailed otherwise)
Sample_of_class(class, t) ==
    [Sample_new_plain(t) EXCEPT !.sample_class = class]

can_create_library_ignores_archived(s) ==
    /\ SampleClass_can_create_library(s.sample_class)
    /\ allows_progression(s.qc_status)

\* Sample::can_create_library (SampleDetails::can_create_library inlined)
can_create_library(s) ==
    /\ SampleClass_can_create_library(s.sample_class)
    /\ allows_progression(s.qc_status)
    /\ ~s.archived

\* Sample::set_qc_status
Sample_set_qc_status(s, status, t) ==
    SampleReturn("Unit", [s EXCEPT !.qc_status = status, !.updated_at = t])

\* Library::has_index
has_index(lib) == lib.index # None

\* Library::can_pool
can_pool(lib) ==
    /\ has_index(lib)
    /\ allows_progression(lib.qc_status)
    /\ ~lib.archived
    /\ ~lib.low_quality

\* Library::archive
Library_archive(lib, t) == [lib EXCEPT !.archived = TRUE, !.updated_at = t]

\* Library::set_qc_status
Library_set_qc_status(lib, status, t) ==
    [lib EXCEPT !.qc_status = status, !.updated_at = t]

----------------------------------------------------------------------------
(* entities/project.rs *)

ProjectStatuses == {"Pending", "Active", "OnHold", "Completed", "Cancelled"}

\* ProjectStatus::accepts_samples
accepts_samples(status) == status \in {"Pending", "Active"}

\* ProjectStatus::is_terminal
is_terminal(status) == status \in {"Completed", "Cancelled"}

\* Project::new
Project_new(id, code, t) ==
    [id |-> id, code |-> code, status |-> "Pending", sample_count |-> 0,
     created_at |-> t, updated_at |-> t]

\* Project::activate
activate(p, t) == [p EXCEPT !.status = "Active", !.updated_at = t]

\* Project::hold
hold(p, t) == [p EXCEPT !.status = "OnHold", !.updated_at = t]

\* Project::complete
complete(p, t) == [p EXCEPT !.status = "Completed", !.updated_at = t]

\* Project::cancel
cancel(p, t) == [p EXCEPT !.status = "Cancelled", !.updated_at = t]

\* Project::add_sample
add_sample(p, t) ==
    [p EXCEPT !.sample_count = p.sample_count + 1, !.updated_at = t]

\* Project::can_add_samples
can_add_samples(p) == accepts_samples(p.status)

----------------------------------------------------------------------------
(* errors.rs and the constructors of value_objects/position.rs,          *)
(* volume.rs and concentration.rs                                        *)

\* the variants of SampleError, LibraryError, PoolError, RunError,
\* StorageError, BarcodeError and of DomainError itself
ErrorVariants ==
    {"InvalidName", "NotExtracted", "FailedQc", "Archived", "InvalidClass",
     "ParentNotFound", "InvalidTissueOrigin", "InvalidTissueType",
     "InvalidDesign", "MissingIndex", "InvalidIndexSequence", "Exhausted",
     "InvalidKitType", "AlreadyPooled",
     "IndexCollision", "EmptyPool", "CapacityExceeded",
     "IncompatibleLibraryTypes", "AlreadySequenced", "DuplicateLibrary",
     "InvalidSequencer", "AlreadyComplete", "Failed", "InvalidParameters",
     "IncompatibleContainer", "MissingQcMetrics",
     "PositionOccupied", "InvalidPosition", "BoxFull", "ItemNotInBox",
     "IncompatibleStorageTypes",
     "InvalidFormat", "AlreadyInUse", "PatternMismatch", "Empty",
     "InvalidCharacters",
     "Validation", "NotFound", "Duplicate", "InvalidStateTransition"}

\* a failed assert!, an arithmetic overflow or a slice off a char boundary
Panicked == Value("Panic", None)

\* Dimension::new
Dimension_new(rows, cols) ==
    IF ~(rows > 0 /\ rows <= MaxRowLetters) THEN Panicked
    ELSE IF ~(cols > 0) THEN Panicked
    ELSE Value("Ok", Some(Dimension(rows, cols)))

\* value >= 0.0 && !value.is_nan()
f64_non_negative(x) == x.kind = "inf" \/ (x.kind = "finite" /\ x.n >= 0)

\* Volume::new with VolumeUnit::Microliters (to_ul_factor 1.0)
Volume_new(value) ==
    IF ~f64_non_negative(value) THEN Panicked
    ELSE Value("Ok", Some(Volume_microliters(value)))

\* Concentration::new with ConcentrationUnit::NgPerUl
Concentration_new(value) ==
    IF ~f64_non_negative(value) THEN Panicked
    ELSE Value("Ok", Some([value |-> value, unit |-> "NgPerUl"]))

\* BoxPosition::new
BoxPosition_new(row, col, dimension) ==
    LET row_upper == to_ascii_uppercase(row)
    IN  IF is_valid_position_panics(row_upper) THEN Panicked
        ELSE IF ~is_valid_position(dimension, row_upper, col)
        THEN Value("InvalidPosition", None)
        ELSE Value("Ok", Some([row |-> row_upper, col |-> col]))

\* char::to_uppercase, for the ASCII characters, the Latin-1 letters that
\* have a one-character upper case, and U+0142
to_uppercase(c) ==
    IF c >= CharLowerA /\ c <= CharLowerZ THEN c - (CharLowerA - CharUpperA)
    ELSE IF c \in (224..254) \ {247} THEN c - 32
    ELSE IF c = CharLStroke + 1 THEN CharLStroke
    ELSE c

\* the decimal value of a string of ASCII digits
RECURSIVE digits_value(_)
digits_value(s) ==
    IF s = <<>> THEN 0
    ELSE digits_value(SubSeq(s, 1, Len(s) - 1)) * 10
         + (s[Len(s)] - (CharDigit1 - 1))

\* str::parse::<u8>, for strings without a sign
parse_u8(s) ==
    IF s = <<>> \/ \E i \in DOMAIN s : s[i] \notin (CharDigit1 - 1)..(CharDigit1 + 8)
    THEN None
    ELSE IF digits_value(s) > MaxU8 THEN None
    ELSE Some(digits_value(s))

\* BoxPosition::parse; s[1..] panics when byte 1 is inside the first char
BoxPosition_parse(s, dimension) ==
    LET t == trim(s)
        u == [i \in DOMAIN t |-> to_uppercase(t[i])]
    IN  IF u = <<>> THEN Value("InvalidPosition", None)
        ELSE LET row == Head(u)
             IN  IF len_utf8(row) > 1 THEN Panicked
                 ELSE LET col == parse_u8(Tail(u))
                      IN  IF col = None THEN Value("InvalidPosition", None)
                          ELSE BoxPosition_new(row, the(col), dimension)

----------------------------------------------------------------------------
(* miso-infrastructure repositories (project_repo.rs, sample_repo.rs)    *)
(* over the tables of the migrations, and the miso-application services  *)

\* the project and sample tables: sets of rows
Tables(projects, samples) == [projects |-> projects, samples |-> samples]

DbReturn(tag, carried, store) == [result |-> Value(tag, carried), db |-> store]

\* AUTO_INCREMENT: the id the table assigns to the next inserted row
next_id(rows) ==
    IF rows = {} THEN 1
    ELSE (CHOOSE m \in {r.id : r \in rows} : \A r \in rows : r.id <= m) + 1

\* SeaOrmProjectRepository::find_by_id
Project_find_by_id(store, id) == {r \in store.projects : r.id = id}

\* SeaOrmProjectRepository::find_by_code
find_by_code(store, code) == {r \in store.projects : r.code = code}

Project_save_no_unique_key(store, p) ==
    IF p.id = 0
    THEN LET id == next_id(store.projects)
         IN  DbReturn("Ok", Some(id),
                 [store EXCEPT !.projects = @ \cup {[p EXCEPT !.id = id]}])
    ELSE IF Project_find_by_id(store, p.id) = None
    THEN DbReturn("Validation", None, store)
    ELSE DbReturn("Ok", Some(p.id),
             [store EXCEPT !.projects = {r \in @ : r.id # p.id} \cup {p}])

\* SeaOrmProjectRepository::save: an insert for id 0, an update otherwise;
\* the table has a unique key on code, and every database error comes back
\* as DomainError::Validation
Project_save(store, p) ==
    IF \E r \in store.projects : r.code = p.code /\ r.id # p.id
    THEN DbReturn("Validation", None, store)
    ELSE IF p.id = 0
    THEN LET id == next_id(store.projects)
         IN  DbReturn("Ok", Some(id),
                 [store EXCEPT !.projects = @ \cup {[p EXCEPT !.id = id]}])
    ELSE IF Project_find_by_id(store, p.id) = None
    THEN DbReturn("Validation", None, store)
    ELSE DbReturn("Ok", Some(p.id),
             [store EXCEPT !.projects = {r \in @ : r.id # p.id} \cup {p}])

\* SeaOrmProjectRepository::delete
Project_delete(store, id) ==
    DbReturn("Ok", None, [store EXCEPT !.projects = {r \in @ : r.id # id}])

\* SeaOrmSampleRepository::find_by_id
Sample_find_by_id(store, id) == {r \in store.samples : r.id = id}

\* SeaOrmSampleRepository::find_by_barcode
find_by_barcode(store, barcode) == {r \in store.samples : r.barcode = barcode}

\* SeaOrmSampleRepository::save: Err(Validation("Not yet implemented"))
Sample_save(store, s) == DbReturn("Validation", None, store)

\* SeaOrmSampleRepository::delete
Sample_delete(store, id) ==
    DbReturn("Ok", None, [store EXCEPT !.samples = {r \in @ : r.id # id}])

\* a stored sample row: Sample::new_plain with its id and barcode
SampleRow(id, barcode, t) ==
    [id |-> id, barcode |-> barcode, qc_status |-> "NotReady",
     created_at |-> t, updated_at |-> t]

\* ProjectService::create_project up to its first await: find_by_code
create_project_find(store, code) ==
    IF find_by_code(store, code) # None
    THEN DbReturn("Duplicate", Some("code"), store)
    ELSE DbReturn("Continue", None, store)

\* ProjectService::create_project from there: Project::new(0, ..), save
create_project_save(store, code, t) ==
    Project_save(store, Project_new(0, code, t))

\* ProjectService::create_project
create_project(store, code, t) ==
    LET found == create_project_find(store, code)
    IN  IF found.result.tag = "Duplicate" THEN found
        ELSE create_project_save(store, code, t)

\* ProjectService::update_project with a status in the request
update_project(store, id, status, t) ==
    LET found == Project_find_by_id(store, id)
    IN  IF found = None THEN DbReturn("NotFound", None, store)
        ELSE LET p == the(found)
                 q == CASE status = "active" -> activate(p, t)
                        [] status = "on_hold" -> hold(p, t)
                        [] status = "completed" -> complete(p, t)
                        [] status = "cancelled" -> cancel(p, t)
                        [] OTHER -> p
             IN  Project_save(store, [q EXCEPT !.updated_at = t])

\* ProjectService::delete_project
delete_project(store, id) ==
    IF Project_find_by_id(store, id) = None
    THEN DbReturn("NotFound", None, store)
    ELSE Project_delete(store, id)

\* SampleService::create_plain_sample; barcode is what generate_barcode
\* returned, eight characters of a random UUID after the prefix
create_plain_sample(store, barcode, t) ==
    IF find_by_barcode(store, barcode) # None
    THEN DbReturn("Duplicate", Some("barcode"), store)
    ELSE LET saved == Sample_save(store, SampleRow(0, barcode, t))
         IN  IF saved.result.tag # "Ok" THEN saved
             ELSE IF Sample_find_by_id(saved.db, the(saved.result.carried)) = None
             THEN DbReturn("NotFound", None, saved.db)
             ELSE DbReturn("Ok", saved.result.carried, saved.db)

\* SampleService::update_sample with a QC status in the request
update_sample(store, id, status, t) ==
    LET found == Sample_find_by_id(store, id)
    IN  IF found = None THEN DbReturn("NotFound", None, store)
        ELSE IF status \notin QcStatuses
        THEN DbReturn("Validation", None, store)
        ELSE Sample_save(store, [the(found) EXCEPT !.qc_status = status,
                                                    !.updated_at = t])

\* SampleService::delete_sample
delete_sample(store, id) ==
    IF Sample_find_by_id(store, id) = None
    THEN DbReturn("NotFound", None, store)
    ELSE Sample_delete(store, id)

----------------------------------------------------------------------------
(* miso-api: middleware/auth.rs and the mutating routes of               *)
(* routes/projects.rs, routes/samples.rs and routes/scanner.rs           *)

\* the role claim of the token, one of the Role names of user.rs
Roles == {"viewer", "technician", "lab_manager", "admin", "super_admin"}

\* AuthUser::can_edit
can_edit(role) == role \in {"technician", "lab_manager", "admin", "super_admin"}

\* AuthUser::can_delete
can_delete(role) == role \in {"lab_manager", "admin", "super_admin"}

\* return Err(ApiError::Forbidden)
Forbidden(store) == DbReturn("Forbidden", None, store)

\* request.validate()? on a request that fails validation
Invalid(store) == DbReturn("Validation", None, store)

\* routes::projects::create_project
routes_create_project(role, valid, store, code, t) ==
    IF ~valid THEN Invalid(store)
    ELSE create_project(store, code, t)

\* routes::projects::update_project
routes_update_project(role, valid, store, id, status, t) ==
    IF ~can_edit(role) THEN Forbidden(store)
    ELSE IF ~valid THEN Invalid(store)
    ELSE update_project(store, id, status, t)

\* routes::projects::delete_project
routes_delete_project(role, store, id) ==
    IF ~can_delete(role) THEN Forbidden(store)
    ELSE delete_project(store, id)

\* routes::samples::create_sample
routes_create_sample(role, valid, store, barcode, t) ==
    IF ~can_edit(role) THEN Forbidden(store)
    ELSE IF ~valid THEN Invalid(store)
    ELSE create_plain_sample(store, barcode, t)

\* routes::samples::update_sample
routes_update_sample(role, valid, store, id, status, t) ==
    IF ~can_edit(role) THEN Forbidden(store)
    ELSE IF ~valid THEN Invalid(store)
    ELSE update_sample(store, id, status, t)

\* routes::samples::delete_sample
routes_delete_sample(role, store, id) ==
    IF ~can_delete(role) THEN Forbidden(store)
    ELSE delete_sample(store, id)

\* routes::scanner::scan_rack; scanned tells whether a scanner is
\* configured and its scan succeeded
scan_rack(role, store, scanned) ==
    IF ~can_edit(role) THEN Forbidden(store)
    ELSE IF ~scanned THEN DbReturn("BadRequest", None, store)
    ELSE DbReturn("Ok", None, store)

----------------------------------------------------------------------------
(* Idle values of the variables a specification does not use *)

IdleBox == StorageBox_new(Dimension(1, 1), "Sample", 0)
IdlePool == Pool_new(0)
IdleConv == [dimension |-> Dimension(1, 1), index |-> 0]
IdlePair == [a |-> DnaIndex_single(ATCACG), b |-> DnaIndex_single(ATCACG)]
IdleChecker == Config_default
IdleLibraries == <<>>
IdleValidator == [rules |-> Rules_default, barcode |-> <<>>]
IdleSample == Sample_new_plain(0)

IdleLibrary == Library_new(1, 0)
IdleProject == Project_new(0, 1, 0)
IdleLive == "none"
IdleDb == Tables({}, {})
IdleCalls == <<>>
IdleUser == "viewer"

IdleLifecycle ==
    /\ library = IdleLibrary
    /\ project = IdleProject
    /\ live = IdleLive

IdleApplication ==
    /\ db = IdleDb
    /\ calls = IdleCalls
    /\ user = IdleUser

IdleServices ==
    /\ pair = IdlePair
    /\ checker = IdleChecker
    /\ libraries = IdleLibraries
    /\ validator = IdleValidator
    /\ sample = IdleSample

\* Time passes between two calls
Tick ==
    /\ now < MaxClock
    /\ now' = now + 1
    /\ UNCHANGED <<lifecycle, application, box, pool, conv, op, result, overflow_checks, services>>

----------------------------------------------------------------------------
(* SpecBox: one StorageBox *)

InitBox ==
    /\ now = 0
    /\ IdleLifecycle
    /\ IdleApplication
    /\ \E d \in Dimensions, st \in StorableTypes : box = StorageBox_new(d, st, 0)
    /\ pool = IdlePool
    /\ conv = IdleConv
    /\ op = "new"
    /\ result = Value("Ok", None)
    /\ overflow_checks \in BOOLEAN
    /\ IdleServices

PlaceItem(position, item) ==
    LET r == place_item(box, position, item, now)
    IN  /\ r.result.tag = "Ok" => item_count(box) < MaxItems
        /\ box' = r.box
        /\ op' = "place_item"
        /\ result' = r.result
        /\ UNCHANGED <<lifecycle, application, pool, conv, now, overflow_checks, services>>

RemoveItem(position) ==
    LET r == remove_item(box, position, now)
    IN  /\ box' = r.box
        /\ op' = "remove_item"
        /\ result' = r.result
        /\ UNCHANGED <<lifecycle, application, pool, conv, now, overflow_checks, services>>

MoveItem(from, to) ==
    LET r == move_item(box, from, to, now)
    IN  /\ box' = r.box
        /\ op' = "move_item"
        /\ result' = r.result
        /\ UNCHANGED <<lifecycle, application, pool, conv, now, overflow_checks, services>>

NextBox ==
    \/ \E position \in Positions, item \in Items : PlaceItem(position, item)
    \/ \E position \in Positions : RemoveItem(position)
    \/ \E from \in Positions, to \in Positions : MoveItem(from, to)
    \/ Tick

SpecBox == InitBox /\ [][NextBox]_vars

----------------------------------------------------------------------------
(* Claims about the StorageBox, checked under SpecBox *)

\* A position is within a Dimension: its row is one of the first `rows`
\* letters and its column is in 1..cols
InBounds(d, p) ==
    /\ p.row >= CharUpperA
    /\ p.row <= CharUpperA + d.rows - 1
    /\ p.col >= 1
    /\ p.col <= d.cols

\* The position with row-major index i of a Dimension
RowMajor(d, i) == [row |-> CharUpperA + (i \div d.cols), col |-> (i % d.cols) + 1]

\* C1: in every reachable box state every occupied position is within the
\* box's own Dimension bounds.
C1_OccupiedWithinBounds ==
    \A e \in box.contents : InBounds(box.dimension, e[1])

\* C2: in every reachable box state every stored item's item_type equals
\* the box's storable_type and each position holds at most one item.
C2_TypeAndOnePerPosition ==
    /\ \A e \in box.contents : e[2].item_type = box.storable_type
    /\ \A e1 \in box.contents, e2 \in box.contents : e1[1] = e2[1] => e1 = e2

C2_Witness ==
    /\ op = "move_item"
    /\ result.tag = "Ok"
    /\ item_count(box) >= 2

\* C4 as stated: after place_item(p, item) succeeds, is_occupied(p) is true
\* and a second place_item(p, x) fails with PositionOccupied for every item x.
C4_SecondPlaceAnyItem ==
    \A p \in Positions, item \in Items :
        LET first == place_item(box, p, item, now)
        IN  first.result.tag = "Ok" =>
                /\ is_occupied(first.box, p)
                /\ \A x \in Items :
                      place_item(first.box, p, x, now).result.tag = "PositionOccupied"

\* C4 amended: after place_item(p, item) succeeds, is_occupied(p) is true
\* and a second place_item(p, x) fails with PositionOccupied for every item
\* x of the box's storable_type, and with IncompatibleStorageTypes for every
\* other item; the box is unchanged by the second call.
C4_SecondPlaceSameType ==
    \A p \in Positions, item \in Items :
        LET first == place_item(box, p, item, now)
        IN  first.result.tag = "Ok" =>
                /\ is_occupied(first.box, p)
                /\ \A x \in Items :
                      LET second == place_item(first.box, p, x, now)
                      IN  /\ second.box = first.box
                          /\ second.result.tag =
                                IF x.item_type = box.storable_type
                                THEN "PositionOccupied"
                                ELSE "IncompatibleStorageTypes"

C4_Witness ==
    /\ op = "place_item"
    /\ result.tag = "Ok"
    /\ item_count(box) >= 1

\* What C5 says place_item returns
C5_Expected(b, p, x) ==
    IF x.item_type # b.storable_type THEN "IncompatibleStorageTypes"
    ELSE IF ~InBounds(b.dimension, p) THEN "InvalidPosition"
    ELSE IF is_occupied(b, p) THEN "PositionOccupied"
    ELSE "Ok"

\* C5: place_item fails with IncompatibleStorageTypes on a type mismatch,
\* with InvalidPosition on a position outside the Dimension, with
\* PositionOccupied on an occupied position, checked in that order; a failure
\* leaves contents and updated_at unchanged, a success adds exactly the item
\* at that position.
C5_PlaceItemContract ==
    \A p \in Positions, x \in Items :
        LET call == place_item(box, p, x, now)
        IN  /\ call.result.tag = C5_Expected(box, p, x)
            /\ call.result.tag # "Ok" => call.box = box
            /\ call.result.tag = "Ok" =>
                  /\ ~is_occupied(box, p)
                  /\ call.box.contents = box.contents \cup {<<p, x>>}

\* C6: move_item fails with PositionOccupied when `to` is occupied (also
\* when from = to), otherwise with ItemNotInBox when `from` is empty, and
\* leaves the contents unchanged in both cases; on success the item formerly
\* at `from` is at `to`, `from` is empty, every other position and the
\* item count are unchanged.
C6_MoveItemContract ==
    \A from \in Positions, to \in Positions :
        LET call == move_item(box, from, to, now)
        IN  /\ call.result.tag =
                  IF is_occupied(box, to) THEN "PositionOccupied"
                  ELSE IF ~is_occupied(box, from) THEN "ItemNotInBox"
                  ELSE "Ok"
            /\ call.result.tag # "Ok" => call.box.contents = box.contents
            /\ call.result.tag = "Ok" =>
                  /\ get_item(call.box, to) = get_item(box, from)
                  /\ get_item(call.box, to) # None
                  /\ ~is_occupied(call.box, from)
                  /\ \A q \in Positions \ {from, to} :
                        get_item(call.box, q) = get_item(box, q)
                  /\ item_count(call.box) = item_count(box)

C6_Witness ==
    /\ op = "move_item"
    /\ result.tag = "Ok"
    /\ item_count(box) = MaxItems

\* C7: find_empty_position returns the unoccupied position with the smallest
\* row-major index in [0, capacity), and none exactly when is_full().
C7_FirstEmptyOrFull ==
    LET found == find_empty_position(box)
        empty == {i \in 0..(capacity(box.dimension) - 1) :
                     ~is_occupied(box, RowMajor(box.dimension, i))}
    IN  /\ (found = None) <=> is_full(box)
        /\ found # None =>
              \E i \in empty :
                  /\ the(found) = RowMajor(box.dimension, i)
                  /\ \A j \in empty : i <= j
        /\ found = None => empty = {}

----------------------------------------------------------------------------
(* SpecPool: one Pool *)

InitPool ==
    /\ now = 0
    /\ IdleLifecycle
    /\ IdleApplication
    /\ pool = Pool_new(0)
    /\ box = IdleBox
    /\ conv = IdleConv
    /\ op = "new"
    /\ result = Value("Ok", None)
    /\ overflow_checks \in BOOLEAN
    /\ IdleServices

AddElement(element) ==
    LET r == add_element(pool, element, now)
    IN  /\ pool' = r.pool
        /\ op' = "add_element"
        /\ result' = r.result
        /\ UNCHANGED <<lifecycle, application, box, conv, now, overflow_checks, services>>

RemoveElement(library_aliquot_id) ==
    LET r == remove_element(pool, library_aliquot_id, now)
    IN  /\ pool' = r.pool
        /\ op' = "remove_element"
        /\ result' = r.result
        /\ UNCHANGED <<lifecycle, application, box, conv, now, overflow_checks, services>>

MarkSequenced ==
    LET r == mark_sequenced(pool, now)
    IN  /\ pool' = r.pool
        /\ op' = "mark_sequenced"
        /\ result' = r.result
        /\ UNCHANGED <<lifecycle, application, box, conv, now, overflow_checks, services>>

NextPool ==
    \/ \E element \in PoolElements : AddElement(element)
    \/ \E id \in 1..MaxAliquotId : RemoveElement(id)
    \/ MarkSequenced
    \/ Tick

SpecPool == InitPool /\ [][NextPool]_vars

----------------------------------------------------------------------------
(* Claims about the Pool, checked under SpecPool *)

\* C3: in every reachable pool state no two elements share the same
\* library_id, whatever their library_aliquot_id.
C3_NoDuplicateLibrary ==
    \A i \in DOMAIN pool.elements, j \in DOMAIN pool.elements :
        pool.elements[i].library_id = pool.elements[j].library_id => i = j

\* a duplicate library offered under another aliquot id has just been refused
C3_Witness ==
    /\ op = "add_element"
    /\ result.tag = "DuplicateLibrary"
    /\ Len(pool.elements) >= 2
    /\ \A i \in DOMAIN pool.elements : pool.elements[i].library_aliquot_id = 1

\* C9: add_element with a library_id already in the pool fails with
\* DuplicateLibrary and leaves the element list and updated_at as they were;
\* with a new library_id it appends the element at the end.
C9_AddElementContract ==
    \A element \in PoolElements :
        LET call == add_element(pool, element, now)
            present == \E i \in DOMAIN pool.elements :
                           pool.elements[i].library_id = element.library_id
        IN  IF present
            THEN /\ call.result.tag = "DuplicateLibrary"
                 /\ call.pool.elements = pool.elements
                 /\ call.pool.updated_at = pool.updated_at
            ELSE /\ call.result.tag = "Ok"
                 /\ call.pool.elements = pool.elements \o <<element>>

\* a duplicate has been refused after the clock moved past updated_at
C9_Witness ==
    /\ op = "add_element"
    /\ result.tag = "DuplicateLibrary"
    /\ Len(pool.elements) >= 1
    /\ now > pool.updated_at

\* C10: once the pool is sequenced it stays sequenced, every remove_element
\* call fails with AlreadySequenced and removes nothing, and no element
\* present is ever removed.
C10_SequencedKeepsElements ==
    [][pool.sequenced =>
          /\ pool'.sequenced
          /\ Len(pool'.elements) >= Len(pool.elements)
          /\ SubSeq(pool'.elements, 1, Len(pool.elements)) = pool.elements
          /\ \A id \in 1..MaxAliquotId :
                RemoveElement(id) =>
                    /\ result'.tag = "AlreadySequenced"
                    /\ pool' = pool]_vars

C10_Witness ==
    /\ pool.sequenced
    /\ op = "remove_element"
    /\ result.tag = "AlreadySequenced"
    /\ \E i \in DOMAIN pool.elements : pool.elements[i].library_aliquot_id = 1
    /\ \E i \in DOMAIN pool.elements : pool.elements[i].library_aliquot_id = 2

\* the position of an element in a list without repetitions
PositionOf(elements, e) == CHOOSE i \in DOMAIN elements : elements[i] = e

\* C11: on a pool that is not sequenced, remove_element(id) with an id no
\* element carries returns an error and leaves the element list and
\* updated_at unchanged; with a matching id it removes exactly the elements
\* carrying that library_aliquot_id and keeps the order of the others.
C11_RemoveElementContract ==
    ~pool.sequenced =>
        \A id \in 1..MaxAliquotId :
            LET call == remove_element(pool, id, now)
                after == call.pool.elements
                others == {pool.elements[i] : i \in
                              {j \in DOMAIN pool.elements :
                                  pool.elements[j].library_aliquot_id # id}}
            IN  IF Cardinality(others) = Len(pool.elements)
                THEN /\ call.result.tag \notin {"Ok", "Unit"}
                     /\ after = pool.elements
                     /\ call.pool.updated_at = pool.updated_at
                ELSE /\ call.result.tag = "Ok"
                     /\ {after[i] : i \in DOMAIN after} = others
                     /\ Len(after) = Cardinality(others)
                     /\ \A i \in DOMAIN after, j \in DOMAIN after :
                           i < j => PositionOf(pool.elements, after[i])
                                      < PositionOf(pool.elements, after[j])

\* an aliquot id has been removed from between elements that stayed
C11_Witness ==
    /\ op = "remove_element"
    /\ result.tag = "Ok"
    /\ Len(pool.elements) >= 2
    /\ ~pool.sequenced

----------------------------------------------------------------------------
(* SpecDim: Dimension::index_to_position over bounded inputs *)

\* Dimension::new accepts 1..26 rows and 1..255 columns
DimensionInputs ==
    {Dimension(r, c) : r \in (1..MaxRows) \cup {MaxRowLetters},
                       c \in (1..MaxCols) \cup {MaxU8}}

InitDim ==
    /\ now = 0
    /\ IdleLifecycle
    /\ IdleApplication
    /\ \E d \in DimensionInputs : conv = [dimension |-> d, index |-> 0]
    /\ box = IdleBox
    /\ pool = IdlePool
    /\ op = "new"
    /\ result = Value("Ok", None)
    /\ overflow_checks \in BOOLEAN
    /\ IdleServices

\* index_to_position is called on the indices 0, 1, 2, ... in turn, as
\* find_empty_position does, and on ExtraIndex indices past the capacity
IndexToPosition(index) ==
    LET r == index_to_position(conv.dimension, index)
    IN  /\ index <= capacity(conv.dimension) + ExtraIndex
        /\ conv' = [conv EXCEPT !.index = index]
        /\ op' = "index_to_position"
        /\ result' = Value(IF r = None THEN "None" ELSE "Some", r)
        /\ UNCHANGED <<lifecycle, application, box, pool, now, overflow_checks, services>>

NextDim == \E index \in {conv.index, conv.index + 1} : IndexToPosition(index)

SpecDim == InitDim /\ [][NextDim]_vars

\* C8: for every Dimension and every index i below the capacity,
\* index_to_position(i) is a position within the Dimension whose to_index
\* is i; for i at or past the capacity it is none.
C8_IndexRoundTrip ==
    op = "index_to_position" =>
        IF conv.index < capacity(conv.dimension)
        THEN /\ result.tag = "Some"
             /\ InBounds(conv.dimension, the(result.carried))
             /\ to_index(the(result.carried), conv.dimension) = conv.index
        ELSE result.tag = "None" /\ result.carried = None

\* the last index of the largest Dimension has been converted
C8_Witness ==
    /\ op = "index_to_position"
    /\ conv.dimension = Dimension(MaxRowLetters, MaxU8)
    /\ conv.index = capacity(conv.dimension) - 1
    /\ result.tag = "Some"

----------------------------------------------------------------------------
(* SpecHamming: DnaIndex::hamming_distance over pairs of indices *)

InitHamming ==
    /\ now = 0
    /\ IdleLifecycle
    /\ IdleApplication
    /\ \E a \in HammingIndices, b \in HammingIndices : pair = [a |-> a, b |-> b]
    /\ box = IdleBox
    /\ pool = IdlePool
    /\ conv = IdleConv
    /\ op = "new"
    /\ result = Value("Ok", None)
    /\ overflow_checks = FALSE
    /\ checker = IdleChecker
    /\ libraries = IdleLibraries
    /\ validator = IdleValidator
    /\ sample = IdleSample

HammingDistance ==
    /\ op' = "hamming_distance"
    /\ result' = Value("u32", Some(hamming_distance(pair.a, pair.b)))
    /\ UNCHANGED <<lifecycle, application, box, pool, conv, now, overflow_checks, services>>

TotalLength ==
    /\ op' = "total_length"
    /\ result' = Value("usize", Some(total_length(pair.a)))
    /\ UNCHANGED <<lifecycle, application, box, pool, conv, now, overflow_checks, services>>

NextHamming == HammingDistance \/ TotalLength

SpecHamming == InitHamming /\ [][NextHamming]_vars

\* the number of positions, over the shorter length, where s and t differ
Mismatches(s, t) ==
    LET n == IF Len(s) < Len(t) THEN Len(s) ELSE Len(t)
    IN  Cardinality({i \in 1..n : s[i] # t[i]})

SameSequences(a, b) ==
    a.i7_sequence = b.i7_sequence /\ a.i5_sequence = b.i5_sequence

\* C15 as stated: for indices of equal total i7 + i5 length the distance is
\* symmetric, and it is 0 if and only if the sequences are identical.
C15_EqualTotalLength ==
    (op = "hamming_distance" /\ total_length(pair.a) = total_length(pair.b)) =>
        /\ the(result.carried) = hamming_distance(pair.b, pair.a)
        /\ (the(result.carried) = 0) <=> SameSequences(pair.a, pair.b)

\* a and b have i7 sequences of equal length and i5 sequences that are both
\* absent or both present with equal length
SameShape(a, b) ==
    /\ Len(a.i7_sequence) = Len(b.i7_sequence)
    /\ is_dual(a) = is_dual(b)
    /\ is_dual(a) => Len(the(a.i5_sequence)) = Len(the(b.i5_sequence))

\* C15 amended: for indices whose i7 sequences have equal length and whose
\* i5 sequences are both absent or both present with equal length, the
\* distance is symmetric, and it is 0 if and only if the sequences are
\* identical.
C15_EqualSegmentLengths ==
    (op = "hamming_distance" /\ SameShape(pair.a, pair.b)) =>
        /\ the(result.carried) = hamming_distance(pair.b, pair.a)
        /\ (the(result.carried) = 0) <=> SameSequences(pair.a, pair.b)

\* two dual indices of the same shape that differ only in the i5 sequence
C15_Witness ==
    /\ op = "hamming_distance"
    /\ is_dual(pair.a) /\ is_dual(pair.b)
    /\ SameShape(pair.a, pair.b)
    /\ pair.a.i7_sequence = pair.b.i7_sequence
    /\ the(result.carried) = MaxSeqLen

----------------------------------------------------------------------------
(* SpecCollide: one IndexCollisionChecker and a slice of libraries *)

InitCollide ==
    /\ now = 0
    /\ IdleLifecycle
    /\ IdleApplication
    /\ checker \in Configs
    /\ libraries = <<>>
    /\ box = IdleBox
    /\ pool = IdlePool
    /\ conv = IdleConv
    /\ op = "new"
    /\ result = Value("Ok", None)
    /\ overflow_checks = FALSE
    /\ pair = IdlePair
    /\ validator = IdleValidator
    /\ sample = IdleSample

\* The caller builds the slice: Library::new, then set_index for some
PushLibrary(id, index) ==
    /\ \A k \in DOMAIN libraries : libraries[k].id # id
    /\ libraries' = Append(libraries,
                           IF index = None THEN Library_new(id, now)
                           ELSE set_index(Library_new(id, now), the(index), now))
    /\ op' = "Library::new"
    /\ result' = Value("Ok", None)
    /\ UNCHANGED <<lifecycle, application, box, pool, conv, now, overflow_checks,
                   pair, checker, validator, sample>>

CheckLibraries ==
    /\ op' = "check_libraries"
    /\ result' = Value("Vec", check_libraries(checker, libraries))
    /\ UNCHANGED <<lifecycle, application, box, pool, conv, now, overflow_checks, services>>

\* check_indices and can_add_index take the (name, index) pairs of the
\* indexed libraries
CheckIndices ==
    /\ op' = "check_indices"
    /\ result' = Value("Vec", check_indices(checker, indexed_of(libraries)))
    /\ UNCHANGED <<lifecycle, application, box, pool, conv, now, overflow_checks, services>>

CanAddIndex(new_index) ==
    /\ op' = "can_add_index"
    /\ result' = can_add_index(checker, indexed_of(libraries), NewName, new_index)
    /\ UNCHANGED <<lifecycle, application, box, pool, conv, now, overflow_checks, services>>

NextCollide ==
    \/ /\ Len(libraries) < MaxSlice
       /\ \E index \in {None} \cup {Some(i) : i \in CollideIndices} :
              PushLibrary(Len(libraries) + 1, index)
    \/ CheckLibraries
    \/ CheckIndices
    \/ \E new_index \in CollideIndices : CanAddIndex(new_index)

SpecCollide == InitCollide /\ [][NextCollide]_vars

----------------------------------------------------------------------------
(* Claims about the IndexCollisionChecker, checked under SpecCollide *)

\* the Hamming distance of two indices as the claims define it
Distance(a, b) ==
    Mismatches(a.i7_sequence, b.i7_sequence)
    + (IF is_dual(a) /\ is_dual(b)
       THEN Mismatches(the(a.i5_sequence), the(b.i5_sequence))
       ELSE 0)

\* the distance of the i7 sequences alone
DistanceI7(a, b) == Mismatches(a.i7_sequence, b.i7_sequence)

\* the libraries of the slice that carry an index
Indexed == {k \in DOMAIN libraries : libraries[k].index # None}

\* how many collisions of a list name the libraries n1 and n2, in that order
Reported(collisions, n1, n2) ==
    Cardinality({c \in DOMAIN collisions :
                    collisions[c].library1 = n1 /\ collisions[c].library2 = n2})

\* the slice is made of single indices with exactly these sequences
SliceIs(sequences) ==
    /\ Len(libraries) = Len(sequences)
    /\ \A k \in DOMAIN libraries :
          libraries[k].index = Some(DnaIndex_single(sequences[k]))

\* C12: check_libraries and check_indices return exactly one collision for
\* every pair i < j of indexed entries at distance < min_distance and none
\* for any other pair, skipping libraries without an index; with threshold
\* 3, ATCACG/ATCACN gives one collision of distance 1, ATCACG/TTAGGC none.
C12_OneCollisionPerClosePair ==
    op \in {"check_libraries", "check_indices"} =>
        LET collisions == result.carried
            close == {<<i, j>> \in Indexed \X Indexed :
                         /\ i < j
                         /\ Distance(the(libraries[i].index), the(libraries[j].index))
                                < checker.min_distance}
        IN  /\ Len(collisions) = Cardinality(close)
            /\ \A <<i, j>> \in close :
                  /\ Reported(collisions, libraries[i].name, libraries[j].name) = 1
                  /\ \A c \in DOMAIN collisions :
                        (/\ collisions[c].library1 = libraries[i].name
                         /\ collisions[c].library2 = libraries[j].name) =>
                            collisions[c].distance =
                                Distance(the(libraries[i].index),
                                         the(libraries[j].index))
            /\ (checker.min_distance = DefaultMinDistance
                /\ SliceIs(<<ATCACG, ATCACN>>)) =>
                   Len(collisions) = 1 /\ collisions[1].distance = 1
            /\ (checker.min_distance = DefaultMinDistance
                /\ SliceIs(<<ATCACG, TTAGGC>>)) =>
                   collisions = <<>>

\* a slice with an unindexed library between two colliding ones was checked
C12_Witness ==
    /\ op = "check_libraries"
    /\ Len(libraries) = MaxSlice
    /\ libraries[1].index # None
    /\ libraries[2].index = None
    /\ Len(result.carried) = 1

\* C16: can_add_index returns Ok exactly when no existing entry is at
\* distance < min_distance of the new index; otherwise it returns the
\* collision of the first such entry in list order, even when a later
\* entry is closer.
C16_CanAddIndexFirstViolation ==
    \A new_index \in CollideIndices :
        LET existing == indexed_of(libraries)
            call == can_add_index(checker, existing, NewName, new_index)
            close == {k \in DOMAIN existing :
                         Distance(existing[k].index, new_index)
                             < checker.min_distance}
        IN  /\ (call.tag = "Ok") <=> (close = {})
            /\ call.tag # "Ok" =>
                  LET first == CHOOSE k \in close : \A d \in close : k <= d
                      collision == the(call.carried)
                  IN  /\ call.tag = "Err"
                      /\ collision.library1 = existing[first].name
                      /\ collision.index1 = existing[first].index
                      /\ collision.library2 = NewName
                      /\ collision.index2 = new_index
                      /\ collision.distance =
                            Distance(existing[first].index, new_index)
                      /\ collision.required_distance = checker.min_distance

\* can_add_index refused an index although a later entry is closer to it
\* than the entry it reports
C16_Witness ==
    /\ op = "can_add_index"
    /\ result.tag = "Err"
    /\ \E k \in Indexed :
          Distance(the(libraries[k].index), the(result.carried).index2)
              < the(result.carried).distance

\* C17: under the relaxed configuration (min_distance = 2), check_indices
\* returns an empty list for the pair ATCACG / ATCACC.
C17_RelaxedPairNotReported ==
    (/\ op = "check_indices"
     /\ checker = Config_relaxed
     /\ SliceIs(<<ATCACG, ATCACC>>)) =>
        result.carried = <<>>

\* C18: with check_dual_index = FALSE the collisions are computed from the
\* i7 sequences only, so two dual indices with identical i7 are reported
\* however different their i5 sequences are.
C18_SingleIndexOnlyIgnoresI5 ==
    (op = "check_indices" /\ ~checker.check_dual_index) =>
        \A i \in Indexed, j \in Indexed :
            (i < j /\ DistanceI7(the(libraries[i].index), the(libraries[j].index))
                          < checker.min_distance) =>
                Reported(result.carried, libraries[i].name, libraries[j].name) = 1

----------------------------------------------------------------------------
(* SpecValidate: one Pool and the slice of libraries it is validated with *)

InitValidate ==
    /\ now = 0
    /\ IdleLifecycle
    /\ IdleApplication
    /\ pool = Pool_new(0)
    /\ libraries = <<>>
    /\ box = IdleBox
    /\ conv = IdleConv
    /\ op = "new"
    /\ result = Value("Ok", None)
    /\ overflow_checks = FALSE
    /\ pair = IdlePair
    /\ checker = IdleChecker
    /\ validator = IdleValidator
    /\ sample = IdleSample

ValidateIndices(min_distance) ==
    LET r == validate_indices(pool, libraries, min_distance)
    IN  /\ pool' = r.pool
        /\ op' = "validate_indices"
        /\ result' = r.result
        /\ UNCHANGED <<lifecycle, application, box, conv, now, overflow_checks, services>>

NextValidate ==
    \/ \E id \in 1..MaxLibraryId : AddElement(PoolElement(1, id))
    \/ /\ Len(libraries) < MaxSlice
       /\ \E id \in 1..MaxLibraryId,
             index \in {None} \cup {Some(i) : i \in ValidateIndices_inputs} :
              PushLibrary(id, index)
    \/ \E min_distance \in MinDistances : ValidateIndices(min_distance)

SpecValidate == InitValidate /\ [][NextValidate]_vars

----------------------------------------------------------------------------
(* Claims about Pool::validate_indices, checked under SpecValidate *)

\* the positions of the slice holding the library of a pool element
InSlice(e) == {k \in DOMAIN libraries : libraries[k].id = e.library_id}

\* the pairs of pool elements whose libraries are both in the slice, both
\* indexed and closer than min_distance
ClosePairs(min_distance) ==
    {<<i, j>> \in (DOMAIN pool.elements) \X (DOMAIN pool.elements) :
        /\ i < j
        /\ \E k \in InSlice(pool.elements[i]), l \in InSlice(pool.elements[j]) :
              /\ libraries[k].index # None
              /\ libraries[l].index # None
              /\ Distance(the(libraries[k].index), the(libraries[l].index))
                     < min_distance}

\* C13: validate_indices returns exactly one IndexCollision for each pair
\* of pool elements whose libraries are both in the slice, both indexed and
\* at distance < min_distance, nothing for a pair with a missing or
\* unindexed library, and leaves the pool as it was.
C13_ValidateIndicesContract ==
    \A min_distance \in MinDistances :
        LET call == validate_indices(pool, libraries, min_distance)
            errors == call.result.carried
            close == ClosePairs(min_distance)
            name(i) == libraries[CHOOSE k \in InSlice(pool.elements[i]) : TRUE].name
        IN  /\ call.pool = pool
            /\ Len(errors) = Cardinality(close)
            /\ \A <<i, j>> \in close :
                  Cardinality({e \in DOMAIN errors :
                                  /\ errors[e].lib1 = name(i)
                                  /\ errors[e].lib2 = name(j)
                                  /\ errors[e].required = min_distance}) = 1

\* a pool of three elements was validated: one pair collides, one element's
\* library is missing from the slice or carries no index
C13_Witness ==
    /\ op = "validate_indices"
    /\ Len(pool.elements) = MaxSlice
    /\ Len(result.carried) = 1
    /\ \E i \in DOMAIN pool.elements :
          \/ InSlice(pool.elements[i]) = {}
          \/ \E k \in InSlice(pool.elements[i]) : libraries[k].index = None

----------------------------------------------------------------------------
(* SpecBarcode: a BarcodeValidator, a rule set and a candidate string *)

InitBarcode ==
    /\ now = 0
    /\ IdleLifecycle
    /\ IdleApplication
    /\ validator \in
          {[rules |-> r, barcode |-> s] : r \in ShortRules, s \in ShortBarcodes}
          \cup {[rules |-> r, barcode |-> s] :
                   r \in {for_samples, Rules_default}, s \in TestBarcodes}
    /\ box = IdleBox
    /\ pool = IdlePool
    /\ conv = IdleConv
    /\ op = "new"
    /\ result = Value("Ok", None)
    /\ overflow_checks = FALSE
    /\ pair = IdlePair
    /\ checker = IdleChecker
    /\ libraries = IdleLibraries
    /\ sample = IdleSample

ValidateWithRules ==
    /\ op' = "validate_with_rules"
    /\ result' = validate_with_rules(validator.barcode, validator.rules)
    /\ UNCHANGED <<lifecycle, application, box, pool, conv, now, overflow_checks, services>>

ValidateSample ==
    /\ op' = "validate_sample"
    /\ result' = validate_sample(validator.barcode)
    /\ UNCHANGED <<lifecycle, application, box, pool, conv, now, overflow_checks, services>>

NextBarcode == ValidateWithRules \/ ValidateSample

SpecBarcode == InitBarcode /\ [][NextBarcode]_vars

----------------------------------------------------------------------------
(* Claims about the BarcodeValidator, checked under SpecBarcode *)

\* every character is alphanumeric, a hyphen or an underscore
AllowedCharacters(s) ==
    \A i \in DOMAIN s :
        is_alphanumeric(s[i]) \/ s[i] \in {CharHyphen, CharUnderscore}

\* the first failing check of a candidate, its length counted in
\* characters
FirstFailingCheck(s, rules) ==
    IF s = <<>> THEN "Empty"
    ELSE IF \/ (rules.min_length # None /\ Len(s) < the(rules.min_length))
            \/ (rules.max_length # None /\ Len(s) > the(rules.max_length))
    THEN "InvalidFormat"
    ELSE IF rules.prefix # None /\ ~starts_with(s, the(rules.prefix))
    THEN "PatternMismatch"
    ELSE IF ~AllowedCharacters(s) THEN "InvalidCharacters"
    ELSE "Ok"

\* the same with the length counted in bytes of the UTF-8 encoding
FirstFailingCheckBytes(s, rules) ==
    IF s = <<>> THEN "Empty"
    ELSE IF \/ (rules.min_length # None /\ str_len(s) < the(rules.min_length))
            \/ (rules.max_length # None /\ str_len(s) > the(rules.max_length))
    THEN "InvalidFormat"
    ELSE IF rules.prefix # None /\ ~starts_with(s, the(rules.prefix))
    THEN "PatternMismatch"
    ELSE IF ~AllowedCharacters(s) THEN "InvalidCharacters"
    ELSE "Ok"

\* C19: validate_with_rules reports the first failing check in the order
\* empty, length bounds, prefix, character set, and returns a Barcode only
\* when all four pass; with the sample rules SAM-12345 succeeds, LIB-12345
\* fails with PatternMismatch and a string shorter than the minimum fails
\* with InvalidFormat whatever its prefix or characters.
C19_FirstFailingCheck ==
    /\ op = "validate_with_rules" =>
          result.tag = FirstFailingCheck(trim(validator.barcode), validator.rules)
    /\ op = "validate_sample" =>
          /\ validator.barcode = SAM \o Digits12345 => result.tag = "Ok"
          /\ validator.barcode = LIB \o Digits12345 =>
                result.tag = "PatternMismatch"
          /\ Len(trim(validator.barcode)) \in 1..(SampleMinLength - 1) =>
                result.tag = "InvalidFormat"

\* what the code does: the same order of checks on the trimmed candidate,
\* its length counted in bytes
C19_OrderWithByteLength ==
    op = "validate_with_rules" =>
        result.tag = FirstFailingCheckBytes(trim(validator.barcode), validator.rules)

----------------------------------------------------------------------------
(* SpecSample: one Sample whose volume is set and withdrawn from *)

InitSample ==
    /\ now = 0
    /\ IdleLifecycle
    /\ IdleApplication
    /\ sample = Sample_new_plain(0)
    /\ box = IdleBox
    /\ pool = IdlePool
    /\ conv = IdleConv
    /\ op = "new_plain"
    /\ result = Value("Ok", None)
    /\ overflow_checks = FALSE
    /\ pair = IdlePair
    /\ checker = IdleChecker
    /\ libraries = IdleLibraries
    /\ validator = IdleValidator

\* the caller assigns the public field: sample.volume = Some(Volume::microliters(v))
SetVolume(value) ==
    /\ sample' = [sample EXCEPT !.volume = Some(Volume_microliters(value))]
    /\ op' = "set_volume"
    /\ result' = Value("Unit", None)
    /\ UNCHANGED <<lifecycle, application, box, pool, conv, now, overflow_checks,
                   pair, checker, libraries, validator>>

WithdrawVolume(amount) ==
    LET r == withdraw_volume(sample, amount, now)
    IN  /\ sample' = r.sample
        /\ op' = "withdraw_volume"
        /\ result' = r.result
        /\ UNCHANGED <<lifecycle, application, box, pool, conv, now, overflow_checks,
                       pair, checker, libraries, validator>>

Archive ==
    LET r == archive(sample, now)
    IN  /\ sample' = r.sample
        /\ op' = "archive"
        /\ result' = r.result
        /\ UNCHANGED <<lifecycle, application, box, pool, conv, now, overflow_checks,
                       pair, checker, libraries, validator>>

NextSample ==
    \/ \E value \in AcceptedValues : SetVolume(value)
    \/ \E value \in AcceptedValues : WithdrawVolume(Volume_microliters(value))
    \/ Archive
    \/ Tick

SpecSample == InitSample /\ [][NextSample]_vars

----------------------------------------------------------------------------
(* Claims about Sample::withdraw_volume, checked under SpecSample *)

\* amount exceeds current
Exceeds(amount, current) ==
    \/ amount.kind = "finite" /\ current.kind = "finite" /\ amount.n > current.n
    \/ amount.kind = "inf" /\ current.kind = "finite"

IsZero(x) == x.kind = "finite" /\ x.n = 0

\* what the claim says of the call withdraw_volume(amount) on the sample
WithdrawAsClaimed(amount) ==
    LET call == withdraw_volume(sample, Volume_microliters(amount), now)
    IN  IF sample.volume = None \/ Exceeds(amount, the(sample.volume).value_ul)
        THEN /\ call.result.tag # "Ok"
             /\ call.sample.volume = sample.volume
             /\ call.sample.updated_at = sample.updated_at
        ELSE LET current == the(sample.volume).value_ul
             IN  /\ call.result.tag = "Ok"
                 /\ call.sample.volume # None
                 /\ the(call.sample.volume).value_ul = f64_sub(current, amount)
                 /\ amount = current => IsZero(the(call.sample.volume).value_ul)
                 /\ call.sample.updated_at = now
                 /\ call.sample.archived = sample.archived

NeverNegative == sample.volume # None => ~f64_lt_zero(the(sample.volume).value_ul)

\* C20: withdraw_volume fails, leaving volume and updated_at unchanged, when
\* no volume is tracked or the amount exceeds the current volume; otherwise
\* the volume becomes exactly current - amount, zero when the whole volume
\* is withdrawn; the tracked volume is never negative.
C20_WithdrawVolumeContract ==
    /\ NeverNegative
    /\ \A amount \in AcceptedValues : WithdrawAsClaimed(amount)

\* the same for the finite volumes and amounts
C20_FiniteWithdrawals ==
    /\ NeverNegative
    /\ (sample.volume = None \/ the(sample.volume).value_ul.kind = "finite") =>
          \A amount \in AcceptedValues \ {F64Inf} : WithdrawAsClaimed(amount)

----------------------------------------------------------------------------
(* SpecEligibility: one Sample and one Library, each as loaded from the   *)
(* store (any class, any low_quality flag), driven by their methods       *)

EligibilityIndices == {DnaIndex_single(ATCACG), DnaIndex_dual(ATCACG, TTAGGC)}

InitEligibility ==
    /\ now = 0
    /\ \E class \in SampleClasses : sample = Sample_of_class(class, 0)
    /\ \E low \in BOOLEAN :
          library = [Library_new(1, 0) EXCEPT !.low_quality = low]
    /\ project = IdleProject
    /\ live = IdleLive
    /\ IdleApplication
    /\ box = IdleBox
    /\ pool = IdlePool
    /\ conv = IdleConv
    /\ op = "new"
    /\ result = Value("Ok", None)
    /\ overflow_checks = FALSE
    /\ pair = IdlePair
    /\ checker = IdleChecker
    /\ libraries = IdleLibraries
    /\ validator = IdleValidator

SampleSetQcStatus(status) ==
    LET r == Sample_set_qc_status(sample, status, now)
    IN  /\ sample' = r.sample
        /\ op' = "Sample::set_qc_status"
        /\ result' = r.result
        /\ UNCHANGED <<lifecycle, application, box, pool, conv, now,
                       overflow_checks, pair, checker, libraries, validator>>

LibrarySetIndex(index) ==
    /\ library' = set_index(library, index, now)
    /\ op' = "Library::set_index"
    /\ result' = Value("Unit", None)
    /\ UNCHANGED <<project, live, application, box, pool, conv, now,
                   overflow_checks, services>>

LibrarySetQcStatus(status) ==
    /\ library' = Library_set_qc_status(library, status, now)
    /\ op' = "Library::set_qc_status"
    /\ result' = Value("Unit", None)
    /\ UNCHANGED <<project, live, application, box, pool, conv, now,
                   overflow_checks, services>>

LibraryArchive ==
    /\ library' = Library_archive(library, now)
    /\ op' = "Library::archive"
    /\ result' = Value("Unit", None)
    /\ UNCHANGED <<project, live, application, box, pool, conv, now,
                   overflow_checks, services>>

NextEligibility ==
    \/ \E status \in QcStatuses : SampleSetQcStatus(status)
    \/ Archive
    \/ \E index \in EligibilityIndices : LibrarySetIndex(index)
    \/ \E status \in QcStatuses : LibrarySetQcStatus(status)
    \/ LibraryArchive
    \/ Tick

SpecEligibility == InitEligibility /\ [][NextEligibility]_vars

\* what C21 says the two predicates are
SampleEligible(s) ==
    /\ s.sample_class \in {"Plain", "Aliquot", "WholeTranscriptome"}
    /\ s.qc_status = "Passed"
    /\ ~s.archived

LibraryEligible(lib) ==
    /\ lib.index # None
    /\ lib.qc_status = "Passed"
    /\ ~lib.archived
    /\ ~lib.low_quality

PredicatesAsClaimed ==
    /\ can_create_library(sample) <=> SampleEligible(sample)
    /\ can_pool(library) <=> LibraryEligible(library)

ArchivedStaysIneligible ==
    /\ sample.archived => (sample'.archived /\ ~can_create_library(sample'))
    /\ library.archived => (library'.archived /\ ~can_pool(library'))

\* C21: Sample::can_create_library() is true exactly when the class is Plain,
\* Aliquot or WholeTranscriptome, the QC status is Passed and the sample is
\* not archived; Library::can_pool() is true exactly when the library has an
\* index, its QC status is Passed, and it is neither archived nor low
\* quality; once archive() was called the predicate is false in every later
\* state, whatever set_qc_status calls follow.
C21_EligibilityPredicates ==
    /\ [](PredicatesAsClaimed)
    /\ [][ArchivedStaysIneligible]_vars

\* an archived sample and an archived library whose other conditions all hold,
\* the sample's QC status having been set after the archive() call
C21_Witness ==
    /\ sample.archived
    /\ sample.sample_class = "Aliquot"
    /\ sample.qc_status = "Passed"
    /\ op = "Sample::set_qc_status"
    /\ library.archived
    /\ has_index(library)
    /\ library.qc_status = "Passed"
    /\ ~library.low_quality

----------------------------------------------------------------------------
(* SpecProject: one Project driven by its status methods and add_sample *)

MaxSamples == 2

MaxCodes == 2

\* the project codes, COVID19 and so on, by number
ProjectCodes == 1..MaxCodes

InitProject ==
    /\ now = 0
    /\ \E code \in ProjectCodes : project = Project_new(1, code, 0)
    /\ library = IdleLibrary
    /\ live = IdleLive
    /\ IdleApplication
    /\ IdleServices
    /\ box = IdleBox
    /\ pool = IdlePool
    /\ conv = IdleConv
    /\ op = "new"
    /\ result = Value("Ok", None)
    /\ overflow_checks = FALSE

Activate ==
    /\ project' = activate(project, now)
    /\ op' = "activate"
    /\ result' = Value("Unit", None)
    /\ UNCHANGED <<library, live, application, box, pool, conv, now,
                   overflow_checks, services>>

Hold ==
    /\ project' = hold(project, now)
    /\ op' = "hold"
    /\ result' = Value("Unit", None)
    /\ UNCHANGED <<library, live, application, box, pool, conv, now,
                   overflow_checks, services>>

Complete ==
    /\ project' = complete(project, now)
    /\ op' = "complete"
    /\ result' = Value("Unit", None)
    /\ UNCHANGED <<library, live, application, box, pool, conv, now,
                   overflow_checks, services>>

Cancel ==
    /\ project' = cancel(project, now)
    /\ op' = "cancel"
    /\ result' = Value("Unit", None)
    /\ UNCHANGED <<library, live, application, box, pool, conv, now,
                   overflow_checks, services>>

AddSample ==
    /\ project.sample_count < MaxSamples
    /\ project' = add_sample(project, now)
    /\ op' = "add_sample"
    /\ result' = Value("Unit", None)
    /\ UNCHANGED <<library, live, application, box, pool, conv, now,
                   overflow_checks, services>>

NextProject ==
    \/ Activate
    \/ Hold
    \/ Complete
    \/ Cancel
    \/ AddSample
    \/ Tick

SpecProject == InitProject /\ [][NextProject]_vars

\* C22: once the status of a Project is terminal (Completed or Cancelled),
\* no activate, hold, complete or cancel call brings it back to a
\* non-terminal status.
C22_TerminalIsFinal ==
    [][is_terminal(project.status) => is_terminal(project'.status)]_vars

----------------------------------------------------------------------------
(* SpecClock: one entity, chosen at construction, driven by its mutating  *)
(* methods while the clock advances                                       *)

Entities == {"box", "pool", "sample", "library", "project"}

\* the volume a stored sample is loaded with
LoadedVolumes == {None} \cup {Some(Volume_microliters(v)) : v \in AcceptedValues}

InitClock ==
    /\ now = 0
    /\ live \in Entities
    /\ IF live = "box"
       THEN \E d \in Dimensions, st \in StorableTypes :
                box = StorageBox_new(d, st, 0)
       ELSE box = IdleBox
    /\ pool = Pool_new(0)
    /\ IF live = "sample"
       THEN \E volume \in LoadedVolumes :
                sample = [Sample_new_plain(0) EXCEPT !.volume = volume]
       ELSE sample = IdleSample
    /\ library = Library_new(1, 0)
    /\ IF live = "project"
       THEN \E code \in ProjectCodes : project = Project_new(1, code, 0)
       ELSE project = IdleProject
    /\ IdleApplication
    /\ conv = IdleConv
    /\ op = "new"
    /\ result = Value("Ok", None)
    /\ overflow_checks \in BOOLEAN
    /\ pair = IdlePair
    /\ checker = IdleChecker
    /\ libraries = IdleLibraries
    /\ validator = IdleValidator

NextClock ==
    \/ live = "box" /\ \E position \in Positions, item \in Items :
                          PlaceItem(position, item)
    \/ live = "box" /\ \E position \in Positions : RemoveItem(position)
    \/ live = "box" /\ \E from \in Positions, to \in Positions :
                          MoveItem(from, to)
    \/ live = "pool" /\ \E element \in PoolElements : AddElement(element)
    \/ live = "pool" /\ \E id \in 1..MaxAliquotId : RemoveElement(id)
    \/ live = "pool" /\ MarkSequenced
    \/ live = "sample" /\ \E value \in AcceptedValues :
                             WithdrawVolume(Volume_microliters(value))
    \/ live = "sample" /\ \E status \in QcStatuses : SampleSetQcStatus(status)
    \/ live = "sample" /\ Archive
    \/ live = "library" /\ \E index \in EligibilityIndices :
                              LibrarySetIndex(index)
    \/ live = "library" /\ \E status \in QcStatuses :
                              LibrarySetQcStatus(status)
    \/ live = "library" /\ LibraryArchive
    \/ live = "project" /\ Activate
    \/ live = "project" /\ Hold
    \/ live = "project" /\ Complete
    \/ live = "project" /\ Cancel
    \/ live = "project" /\ AddSample
    \/ Tick

SpecClock == InitClock /\ [][NextClock]_vars

Stamps(e) == [created_at |-> e.created_at, updated_at |-> e.updated_at]

\* the timestamps of the entity the behaviour drives
Stamp ==
    CASE live = "box" -> Stamps(box)
      [] live = "pool" -> Stamps(pool)
      [] live = "sample" -> Stamps(sample)
      [] live = "library" -> Stamps(library)
      [] live = "project" -> Stamps(project)

\* the last call changed the entity: it returned Ok or (), or remove_item
\* returned the removed item
Succeeded ==
    IF op = "remove_item" THEN result.tag = "Some"
    ELSE result.tag \in {"Ok", "Unit"}

StampsOrdered == Stamp.created_at <= Stamp.updated_at /\ Stamp.updated_at <= now

\* a step in which a method was called (the clock stands still during a call)
StampsOfCall ==
    /\ Stamp'.created_at = Stamp.created_at
    /\ now' = now =>
          IF Succeeded' THEN Stamp'.updated_at = now
          ELSE Stamp'.updated_at = Stamp.updated_at

----------------------------------------------------------------------------
(* SpecTotal: the constructors and Sample::withdraw_volume, each called   *)
(* with inputs inside and outside its documented domain                   *)

MaxParseLen == 3

\* f64 arguments: the accepted values, a negative one, -inf and NaN
F64Inputs == AcceptedValues \cup {F64(0 - 1), F64NegInf, F64NaN}

\* row characters: the letters of the largest box, one letter past it, and
\* the lower-case, below-'A' and non-ASCII characters of RowChars
RowInputs == {CharUpperA + r : r \in 0..MaxRows} \cup RowChars

\* the strings BoxPosition::parse is called with
ParseAlphabet == {CharUpperA, CharLowerA + 1, CharDigit1, CharDigit1 + 1,
                  CharSpace, CharEAcute}
ParseInputs == UNION {[1..n -> ParseAlphabet] : n \in 0..MaxParseLen}

InitTotal ==
    /\ now = 0
    /\ IdleLifecycle
    /\ IdleApplication
    /\ \E volume \in LoadedVolumes :
          sample = [Sample_new_plain(0) EXCEPT !.volume = volume]
    /\ box = IdleBox
    /\ pool = IdlePool
    /\ conv = IdleConv
    /\ op = "new"
    /\ result = Value("Ok", None)
    /\ overflow_checks \in BOOLEAN
    /\ pair = IdlePair
    /\ checker = IdleChecker
    /\ libraries = IdleLibraries
    /\ validator = IdleValidator

DimensionNew(rows, cols) ==
    /\ op' = "Dimension::new"
    /\ result' = Dimension_new(rows, cols)
    /\ UNCHANGED <<lifecycle, application, box, pool, conv, now,
                   overflow_checks, services>>

VolumeNew(value) ==
    /\ op' = "Volume::new"
    /\ result' = Volume_new(value)
    /\ UNCHANGED <<lifecycle, application, box, pool, conv, now,
                   overflow_checks, services>>

ConcentrationNew(value) ==
    /\ op' = "Concentration::new"
    /\ result' = Concentration_new(value)
    /\ UNCHANGED <<lifecycle, application, box, pool, conv, now,
                   overflow_checks, services>>

BoxPositionNew(row, col, dimension) ==
    /\ op' = "BoxPosition::new"
    /\ result' = BoxPosition_new(row, col, dimension)
    /\ UNCHANGED <<lifecycle, application, box, pool, conv, now,
                   overflow_checks, services>>

BoxPositionParse(s, dimension) ==
    /\ op' = "BoxPosition::parse"
    /\ result' = BoxPosition_parse(s, dimension)
    /\ UNCHANGED <<lifecycle, application, box, pool, conv, now,
                   overflow_checks, services>>

NextTotal ==
    \/ \E rows \in 0..(MaxRowLetters + 1), cols \in 0..MaxCols :
          DimensionNew(rows, cols)
    \/ \E value \in F64Inputs : VolumeNew(value)
    \/ \E value \in F64Inputs : ConcentrationNew(value)
    \/ \E row \in RowInputs, col \in 0..(MaxCols + 1), d \in Dimensions :
          BoxPositionNew(row, col, d)
    \/ \E s \in ParseInputs, d \in Dimensions : BoxPositionParse(s, d)
    \/ \E value \in AcceptedValues : WithdrawVolume(Volume_microliters(value))

SpecTotal == InitTotal /\ [][NextTotal]_vars

\* C24: every public domain operation, for every input, returns its value
\* or one variant of the domain error taxonomy: none panics, none reports
\* failure as an untyped value.
C24_ValueOrDomainError ==
    result.tag \in {"Ok"} \cup ErrorVariants

\* what C27 says BoxPosition::new accepts
AcceptedAsClaimed(row, col, d) ==
    /\ to_ascii_uppercase(row) \in CharUpperA..(CharUpperA + d.rows - 1)
    /\ col \in 1..d.cols

\* the positions BoxPosition::new returns for a Dimension
AcceptedPositions(d) ==
    {the(BoxPosition_new(row, col, d).carried) :
        <<row, col>> \in {rc \in RowInputs \X (0..(MaxCols + 1)) :
                             BoxPosition_new(rc[1], rc[2], d).tag = "Ok"}}

\* C27: BoxPosition::new(row, col, d) returns Ok only when the upper-cased
\* row is one of the first d.rows letters and 1 <= col <= d.cols, every
\* other input (rows below 'A' and non-ASCII rows included) yields
\* InvalidPosition, and two distinct accepted positions of one Dimension
\* never share a to_index value.
C27_NewValidatesRow ==
    \A d \in Dimensions :
        /\ \A row \in RowInputs, col \in 0..(MaxCols + 1) :
              BoxPosition_new(row, col, d).tag =
                  IF AcceptedAsClaimed(row, col, d) THEN "Ok"
                  ELSE "InvalidPosition"
        /\ \A p \in AcceptedPositions(d), q \in AcceptedPositions(d) :
              p # q => to_index(p, d) # to_index(q, d)

----------------------------------------------------------------------------
(* SpecAppend: a caller grows a list of (name, index) pairs, appending a  *)
(* new index only when can_add_index returns Ok                           *)

MaxList == 3

InitAppend ==
    /\ now = 0
    /\ IdleLifecycle
    /\ IdleApplication
    /\ checker \in Configs
    /\ libraries = <<>>
    /\ box = IdleBox
    /\ pool = IdlePool
    /\ conv = IdleConv
    /\ op = "new"
    /\ result = Value("Ok", None)
    /\ overflow_checks = FALSE
    /\ pair = IdlePair
    /\ validator = IdleValidator
    /\ sample = IdleSample

\* if checker.can_add_index(&existing, name, &index).is_ok() { existing.push(..) }
AppendIfOk(new_index) ==
    LET new_name == Len(libraries) + 1
        r == can_add_index(checker, libraries, new_name, new_index)
    IN  /\ Len(libraries) < MaxList
        /\ libraries' = IF r.tag = "Ok"
                        THEN Append(libraries, Entry(new_name, new_index))
                        ELSE libraries
        /\ op' = "can_add_index"
        /\ result' = r
        /\ UNCHANGED <<lifecycle, application, box, pool, conv, now,
                       overflow_checks, pair, checker, validator, sample>>

CheckList ==
    /\ op' = "check_indices"
    /\ result' = Value("Vec", check_indices(checker, libraries))
    /\ UNCHANGED <<lifecycle, application, box, pool, conv, now,
                   overflow_checks, services>>

MinDistance ==
    /\ op' = "min_distance"
    /\ result' = Value("Option",
                       min_distance_of([k \in DOMAIN libraries |-> libraries[k].index]))
    /\ UNCHANGED <<lifecycle, application, box, pool, conv, now,
                   overflow_checks, services>>

NextAppend ==
    \/ \E new_index \in CollideIndices : AppendIfOk(new_index)
    \/ CheckList
    \/ MinDistance

SpecAppend == InitAppend /\ [][NextAppend]_vars

\* C28: a list grown from empty by appending an index only when
\* can_add_index returned Ok is collision-free in every reachable state:
\* check_indices returns no collision and, once the list holds two or more
\* indices, min_distance is at least the configured threshold.
C28_GrownListCollisionFree ==
    /\ check_indices(checker, libraries) = <<>>
    /\ Len(libraries) >= 2 =>
          /\ min_distance_of([k \in DOMAIN libraries |-> libraries[k].index]) # None
          /\ the(min_distance_of([k \in DOMAIN libraries |-> libraries[k].index]))
                 >= checker.min_distance

\* a list of two accepted indices on which the last call was refused
C28_Witness ==
    /\ Len(libraries) = 2
    /\ op = "can_add_index"
    /\ result.tag = "Err"

----------------------------------------------------------------------------
(* SpecStore: the two repositories and SampleService::create_plain_sample *)
(* called one after the other on a database that already holds samples    *)

MaxProjectId == 3

\* what generate_barcode("SAM") may return
GeneratedBarcodes == {"SAM-0000000A", "SAM-0000000B"}

\* the sample rows the database may hold at the start
LoadedSamples ==
    {SampleRow(1, "SAM-0000000A", 0), SampleRow(2, "SAM-0000000B", 0)}

\* the projects handed to save: new ones (id 0) and ones with an id
SavedProjects ==
    {[Project_new(id, code, 0) EXCEPT !.status = status] :
        id \in 0..MaxProjectId, code \in ProjectCodes,
        status \in {"Pending", "Active"}}

InitStore ==
    /\ now = 0
    /\ IdleLifecycle
    /\ \E samples \in SUBSET LoadedSamples : db = Tables({}, samples)
    /\ calls = IdleCalls
    /\ user = IdleUser
    /\ IdleServices
    /\ box = IdleBox
    /\ pool = IdlePool
    /\ conv = IdleConv
    /\ op = "new"
    /\ result = Value("Ok", None)
    /\ overflow_checks = FALSE

SaveProject(p) ==
    LET r == Project_save(db, p)
    IN  /\ p.id = 0 => next_id(db.projects) <= MaxProjectId
        /\ db' = r.db
        /\ op' = "ProjectRepository::save"
        /\ result' = r.result
        /\ UNCHANGED <<lifecycle, calls, user, box, pool, conv, now,
                       overflow_checks, services>>

DeleteProject(id) ==
    LET r == Project_delete(db, id)
    IN  /\ db' = r.db
        /\ op' = "ProjectRepository::delete"
        /\ result' = r.result
        /\ UNCHANGED <<lifecycle, calls, user, box, pool, conv, now,
                       overflow_checks, services>>

SaveSample(s) ==
    LET r == Sample_save(db, s)
    IN  /\ db' = r.db
        /\ op' = "SampleRepository::save"
        /\ result' = r.result
        /\ UNCHANGED <<lifecycle, calls, user, box, pool, conv, now,
                       overflow_checks, services>>

DeleteSample(id) ==
    LET r == Sample_delete(db, id)
    IN  /\ db' = r.db
        /\ op' = "SampleRepository::delete"
        /\ result' = r.result
        /\ UNCHANGED <<lifecycle, calls, user, box, pool, conv, now,
                       overflow_checks, services>>

CreatePlainSample(barcode) ==
    LET r == create_plain_sample(db, barcode, now)
    IN  /\ db' = r.db
        /\ op' = "create_plain_sample"
        /\ result' = r.result
        /\ UNCHANGED <<lifecycle, calls, user, box, pool, conv, now,
                       overflow_checks, services>>

NextStore ==
    \/ \E p \in SavedProjects : SaveProject(p)
    \/ \E id \in 1..MaxProjectId : DeleteProject(id)
    \/ \E id \in 0..2, barcode \in GeneratedBarcodes :
          SaveSample(SampleRow(id, barcode, now))
    \/ \E id \in 1..2 : DeleteSample(id)
    \/ \E barcode \in GeneratedBarcodes : CreatePlainSample(barcode)

SpecStore == InitStore /\ [][NextStore]_vars

\* save of an entity with id 0 inserts it and returns the new id
InsertsAsClaimed(r, before, after, entity) ==
    /\ r.tag = "Ok"
    /\ r.carried # None
    /\ the(r.carried) \notin {0} \cup {row.id : row \in before}
    /\ after = before \cup {[entity EXCEPT !.id = the(r.carried)]}

\* save of an entity with a non-zero id updates it and returns that id
UpdatesAsClaimed(r, before, after, entity) ==
    /\ r.tag = "Ok"
    /\ r.carried = Some(entity.id)
    /\ after = {row \in before : row.id # entity.id} \cup {entity}

\* C25: each repository honours the save contract (id 0 inserts and returns
\* the new id, a non-zero id updates and returns it), and
\* SampleService::create_plain_sample on a store that does not hold the
\* generated barcode saves the sample and returns it.
C25_SaveContract ==
    /\ \A p \in SavedProjects :
          LET r == Project_save(db, p)
          IN  /\ (p.id = 0 /\ find_by_code(db, p.code) = None) =>
                    InsertsAsClaimed(r.result, db.projects, r.db.projects, p)
              /\ (Project_find_by_id(db, p.id) # None
                     /\ find_by_code(db, p.code) \subseteq Project_find_by_id(db, p.id)) =>
                    UpdatesAsClaimed(r.result, db.projects, r.db.projects, p)
    /\ \A barcode \in GeneratedBarcodes :
          find_by_barcode(db, barcode) = None =>
              /\ LET s == SampleRow(0, barcode, now)
                     r == Sample_save(db, s)
                 IN  InsertsAsClaimed(r.result, db.samples, r.db.samples, s)
              /\ LET r == create_plain_sample(db, barcode, now)
                 IN  /\ r.result.tag = "Ok"
                     /\ find_by_barcode(r.db, barcode) # None
    /\ \A row \in db.samples :
          LET s == [row EXCEPT !.qc_status = "Passed"]
              r == Sample_save(db, s)
          IN  UpdatesAsClaimed(r.result, db.samples, r.db.samples, s)

\* the project half of C25, for a database that assigns the next
\* AUTO_INCREMENT id to a row inserted with id 0
C25_ProjectSaveContract ==
    \A p \in SavedProjects :
        LET r == Project_save(db, p)
        IN  /\ (p.id = 0 /\ find_by_code(db, p.code) = None) =>
                  InsertsAsClaimed(r.result, db.projects, r.db.projects, p)
            /\ (Project_find_by_id(db, p.id) # None
                   /\ find_by_code(db, p.code) \subseteq Project_find_by_id(db, p.id)) =>
                  UpdatesAsClaimed(r.result, db.projects, r.db.projects, p)

\* C26: create_plain_sample never saves a sample under a barcode a stored
\* sample already holds, and when the generated barcode is held it
\* generates a new one and tries again rather than failing the request.
C26_RetryOnCollision ==
    \A barcode \in GeneratedBarcodes :
        LET r == create_plain_sample(db, barcode, now)
        IN  /\ \A x \in r.db.samples, y \in r.db.samples :
                  x.barcode = y.barcode => x = y
            /\ find_by_barcode(db, barcode) # None =>
                  r.result.tag # "Duplicate"

\* the first half of C26, which the code satisfies
C26_NoSaveUnderHeldBarcode ==
    \A barcode \in GeneratedBarcodes :
        LET r == create_plain_sample(db, barcode, now)
        IN  /\ \A x \in r.db.samples, y \in r.db.samples :
                  x.barcode = y.barcode => x = y
            /\ find_by_barcode(db, barcode) # None =>
                  r.result.tag = "Duplicate" /\ r.db = db

----------------------------------------------------------------------------
(* SpecCreate: concurrent ProjectService::create_project calls on one     *)
(* database; a call yields at `find_by_code(..).await` and at             *)
(* `save(..).await`, and the runtime may run any other call in between    *)

MaxCallers == 2

Callers == 1..MaxCallers

\* a call in flight: where it stands, the code of its request, its result
Call(pc, code, r) == [pc |-> pc, code |-> code, result |-> r]

InitCreate ==
    /\ now = 0
    /\ IdleLifecycle
    /\ db = Tables({}, {})
    /\ calls = [c \in Callers |-> Call("idle", 0, Value("None", None))]
    /\ user = IdleUser
    /\ IdleServices
    /\ box = IdleBox
    /\ pool = IdlePool
    /\ conv = IdleConv
    /\ op = "new"
    /\ result = Value("Ok", None)
    /\ overflow_checks = FALSE

\* a request arrives: create_project(request, created_by) is called
Begin(c, code) ==
    /\ calls[c].pc = "idle"
    /\ calls' = [calls EXCEPT ![c] = Call("find", code, Value("None", None))]
    /\ op' = "create_project"
    /\ UNCHANGED <<lifecycle, db, user, result, box, pool, conv, now,
                   overflow_checks, services>>

\* the call runs find_by_code and returns Duplicate or goes on to save
FindByCode(c) ==
    LET r == create_project_find(db, calls[c].code)
    IN  /\ calls[c].pc = "find"
        /\ calls' = [calls EXCEPT ![c] =
                        IF r.result.tag = "Duplicate"
                        THEN Call("done", calls[c].code, r.result)
                        ELSE Call("save", calls[c].code, calls[c].result)]
        /\ op' = "find_by_code"
        /\ result' = r.result
        /\ UNCHANGED <<lifecycle, db, user, box, pool, conv, now,
                       overflow_checks, services>>

\* the call builds the project, runs save and returns
Save(c) ==
    LET r == create_project_save(db, calls[c].code, now)
    IN  /\ calls[c].pc = "save"
        /\ db' = r.db
        /\ calls' = [calls EXCEPT ![c] = Call("done", calls[c].code, r.result)]
        /\ op' = "save"
        /\ result' = r.result
        /\ UNCHANGED <<lifecycle, user, box, pool, conv, now,
                       overflow_checks, services>>

NextCreate ==
    \/ \E c \in Callers, code \in ProjectCodes : Begin(c, code)
    \/ \E c \in Callers : FindByCode(c)
    \/ \E c \in Callers : Save(c)
    \/ Tick

SpecCreate == InitCreate /\ [][NextCreate]_vars

\* at most one stored project per code
OnePerCode == \A x \in db.projects, y \in db.projects : x.code = y.code => x = y

\* C29: under any interleaving of concurrent create_project calls with the
\* same code, at most one project with that code is stored, and every call
\* that does not store returns DomainError::Duplicate for field "code".
C29_OneStoredOthersDuplicate ==
    /\ OnePerCode
    /\ \A c \in Callers :
          calls[c].pc = "done" =>
              \/ calls[c].result.tag = "Ok"
              \/ /\ calls[c].result.tag = "Duplicate"
                 /\ calls[c].result.carried = Some("code")

\* the first half of C29, which the unique key on code guarantees
C29_AtMostOnePerCode == OnePerCode

----------------------------------------------------------------------------
(* SpecRoutes: one authenticated user calls the mutating routes on a      *)
(* database that holds a project and a sample                             *)

\* the status strings of an UpdateProjectRequest
StatusRequests == {"active", "completed", "archived"}

\* the qc_status strings of an UpdateSampleRequest
QcRequests == {"Passed", "Failed", "unknown"}

InitRoutes ==
    /\ now = 0
    /\ IdleLifecycle
    /\ db = Tables({Project_new(1, 1, 0)}, {SampleRow(1, "SAM-0000000A", 0)})
    /\ calls = IdleCalls
    /\ user \in Roles
    /\ IdleServices
    /\ box = IdleBox
    /\ pool = IdlePool
    /\ conv = IdleConv
    /\ op = "new"
    /\ result = Value("Ok", None)
    /\ overflow_checks = FALSE

PostProject(valid, code) ==
    LET r == routes_create_project(user, valid, db, code, now)
    IN  /\ next_id(db.projects) <= MaxProjectId
        /\ db' = r.db
        /\ op' = "POST /projects"
        /\ result' = r.result
        /\ UNCHANGED <<lifecycle, calls, user, box, pool, conv, now,
                       overflow_checks, services>>

PutProject(valid, id, status) ==
    LET r == routes_update_project(user, valid, db, id, status, now)
    IN  /\ db' = r.db
        /\ op' = "PUT /projects/:id"
        /\ result' = r.result
        /\ UNCHANGED <<lifecycle, calls, user, box, pool, conv, now,
                       overflow_checks, services>>

DeleteProjectRoute(id) ==
    LET r == routes_delete_project(user, db, id)
    IN  /\ db' = r.db
        /\ op' = "DELETE /projects/:id"
        /\ result' = r.result
        /\ UNCHANGED <<lifecycle, calls, user, box, pool, conv, now,
                       overflow_checks, services>>

PostSample(valid, barcode) ==
    LET r == routes_create_sample(user, valid, db, barcode, now)
    IN  /\ db' = r.db
        /\ op' = "POST /samples"
        /\ result' = r.result
        /\ UNCHANGED <<lifecycle, calls, user, box, pool, conv, now,
                       overflow_checks, services>>

PutSample(valid, id, status) ==
    LET r == routes_update_sample(user, valid, db, id, status, now)
    IN  /\ db' = r.db
        /\ op' = "PUT /samples/:id"
        /\ result' = r.result
        /\ UNCHANGED <<lifecycle, calls, user, box, pool, conv, now,
                       overflow_checks, services>>

DeleteSampleRoute(id) ==
    LET r == routes_delete_sample(user, db, id)
    IN  /\ db' = r.db
        /\ op' = "DELETE /samples/:id"
        /\ result' = r.result
        /\ UNCHANGED <<lifecycle, calls, user, box, pool, conv, now,
                       overflow_checks, services>>

PostScan(scanned) ==
    LET r == scan_rack(user, db, scanned)
    IN  /\ db' = r.db
        /\ op' = "POST /scanner/scan"
        /\ result' = r.result
        /\ UNCHANGED <<lifecycle, calls, user, box, pool, conv, now,
                       overflow_checks, services>>

NextRoutes ==
    \/ \E valid \in BOOLEAN, code \in ProjectCodes : PostProject(valid, code)
    \/ \E valid \in BOOLEAN, id \in 1..MaxProjectId, status \in StatusRequests :
          PutProject(valid, id, status)
    \/ \E id \in 1..MaxProjectId : DeleteProjectRoute(id)
    \/ \E valid \in BOOLEAN, barcode \in GeneratedBarcodes :
          PostSample(valid, barcode)
    \/ \E valid \in BOOLEAN, id \in 1..2, status \in QcRequests :
          PutSample(valid, id, status)
    \/ \E id \in 1..2 : DeleteSampleRoute(id)
    \/ \E scanned \in BOOLEAN : PostScan(scanned)

SpecRoutes == InitRoutes /\ [][NextRoutes]_vars

\* C30: for a caller whose role cannot edit, every mutating route (create,
\* update and delete of projects and samples, rack scan) answers Forbidden
\* before any service is called, so the database is left as it was.
C30_ViewerReadOnly ==
    [][~can_edit(user) => (result'.tag = "Forbidden" /\ db' = db)]_vars

====
